---- MODULE Spec2Model ----
(***************************************************************************)
(* Event loop, task dispatch and panic propagation of portlight, modelled  *)
(* for its three backends (x11: socket event stream, win32: message queue, *)
(* cocoa: NSApplication run loop).                                         *)
(*                                                                         *)
(* Control is modelled as a call stack of frames.  An empty stack is the   *)
(* application's own code outside every library call.  A frame is          *)
(*   "run" / "poll"  a pump in progress (EventLoopState::run / poll),      *)
(*   "with"          a closure running inside with()/try_with(),           *)
(*   "handler"       Task::event() running for a dispatched event.         *)
(* Application code (empty stack, or a "with"/"handler" frame on top) may  *)
(* call any public operation; a pump frame on top takes pump steps.        *)
(***************************************************************************)
EXTENDS Integers, Sequences, FiniteSets, TLC

\* ---- bounds of the model -------------------------------------------------
NumTasks == 1
NumWindows == 1
MaxDepth == 3
MaxQueue == 2
MaxTimers == 2
MaxSoftTimers == 1
MaxTime == 8
NumDisplays == 1
MaxPosted == 2
NumHwnds == 2
NumMonitors == 2
MaxBatch == 2
MaxStream == 3
MaxDim == 2
MaxClicks == 3

Tasks == 1..NumTasks
Windows == 1..NumWindows
Backends == {"x11", "win32", "cocoa"}
\* timer ids are handed out from next_id, starting at 0
TimerIds == 0..((IF MaxTimers > MaxSoftTimers THEN MaxTimers
                 ELSE MaxSoftTimers) - 1)
\* timer periods, in clock ticks
Durations == {2}
\* displays (monitors) with a refresh thread each
Displays == 1..NumDisplays
Hwnds == 1..NumHwnds
Monitors == 1..NumMonitors
\* rectangles an Expose event can carry
Rects == {1, 2}
\* Xft.dpi of the X resource database
XftDpi == 192
\* native registrations made by EventLoopState::new
Registrations == {"window_class", "message_hwnd", "message_class"}
\* the handles the application can hold
Handles == {"EventLoop", "TaskHandle", "Window", "Timer"}

VARIABLES
    backend,     \* which backend is compiled in (cfg(target_os))
    stack,       \* call stack of frames, innermost last
    handle,      \* handle[t]: the TaskHandle of task t exists (strong Rc)
    borrowed,    \* borrowed[t]: RefCell<Task> of t is mutably borrowed
    winTask,     \* winTask[w]: task a window was opened under, 0 = not open
    run_state,   \* x11: EventLoopState.run_state
    running,     \* win32 / cocoa: EventLoopState.running
    panic,       \* win32 / cocoa: EventLoopState.panic, 0 = None
    quit,        \* win32: PostQuitMessage pending; cocoa: [NSApp stop] pending
    events,      \* native input events queued for the loop (window ids)
    dirty,       \* win32: windows whose update region is not empty
    aborted,     \* std::process::abort() was called
    now,         \* Instant::now(), in clock ticks
    tm,          \* tm[id]: the TimerState created with id, and whether it is
                 \* in the registry Timers.timers
    next_id,     \* Timers.next_id
    tqueue,      \* x11: Timers.queue, entries [time, timer_id]
    tmsg,        \* win32: timer ids with a WM_TIMER message outstanding
    last         \* history: outcome of the latest step (a call that
                 \* returned, and how a pump returned)

\* Ownership on win32.  A strong reference (Rc) is named by its holder.
VARIABLES
    held,        \* handles the application holds
    made,        \* handles created so far
    elRefs,      \* holders of an Rc<EventLoopState>
    taskRefs,    \* holders of an Rc<RefCell<Task>>
    winRefs,     \* holders of an Rc<WindowState>
    timRefs,     \* holders of an Rc<TimerState>
    dpc,         \* Drop for EventLoopState: "live", the statement to run
                 \* next, or "dead"
    rel,         \* rel[r]: how often registration r was released
    threads,     \* VsyncThreads.threads: displays whose Thread is in the map
    vpc,         \* vpc[d]: position of the refresh thread of display d
    pending,     \* ThreadState.pending of display d
    halt,        \* ThreadState.halt of display d
    vq,          \* vq[d]: WM_USER_VBLANK messages for d in the message queue
    proc,        \* message_wnd_proc handling WM_USER_VBLANK: position and
                 \* display
    lev          \* history: latest dispatch or tick and its outcome

\* Windows of the win32 backend, one record per window (see WindowNew).
VARIABLES
    wtask,       \* the Task the windows were opened under: "none" before it
                 \* is spawned, "alive", or "dropped"
    wins,        \* wins[w]: the WindowState of window w and its native window
    cur,         \* the closure or handler the dispatch thread is inside
    tick,        \* handle_vblank in progress: display, windows of the
                 \* snapshot not visited yet, and the history of the tick
    wlast        \* history: outcome of the latest window operation

\* Expose handling of the x11 backend.
VARIABLES
    xopen,       \* xopen[w]: window w is in EventLoopState.windows
    xacc,        \* xacc[w]: WindowState.expose_rects of window w
    xstream,     \* Expose events the server has sent, not yet polled
    xsent,       \* history: xsent[w] is the batches sent for w whose last
                 \* event has not been polled yet, oldest first
    xbusy,       \* the Task of the windows is borrowed or dropped
    xlast        \* history: what polling the latest event did; for an
                 \* Expose dispatch the length of its list and whether the
                 \* list is exactly the batch sent

\* Presenting on the cocoa backend.
VARIABLES
    psurf,       \* WindowState.surface: whether it is Some, its width and
                 \* height, the pixels of its buffer, row after row, and the
                 \* number of surfaces allocated for the window
    plast        \* history: the latest present, its bitmap, the buffer
                 \* before it, and whether the copy ran to its end

\* Mouse buttons on the win32 backend.
VARIABLES
    mdc,         \* mdc[w]: WindowState.mouse_down_count of window w
    cap,         \* cap[w]: window w holds the native mouse capture
    downs,       \* history: button-down messages window w has received
    ups,         \* history: button-up messages window w has received
    blast        \* history: the latest button message, and whether its
                 \* handler ran

\* Pointer positions.
VARIABLES
    moved        \* the latest MouseMove handed to a handler: the native
                 \* position, the window's dpi and the delivered point

tvars == <<now, tm, next_id, tqueue, tmsg>>

\* Refresh messages of the win32 backend, one refresh thread per monitor.
VARIABLES
    vpend,       \* vpend[m]: ThreadState.pending of the thread of monitor m
    vposted,     \* monitors with a WM_USER_VBLANK in the posted queue
    nfail,       \* history: handler failures caught since run() was entered
    flast        \* history: the latest step of the refresh machinery

\* The blocking wait of the x11 run(), and window creation on win32.
VARIABLES
    twait,       \* the latest timeout computed by the x11 run() for libc::poll
    created      \* the latest CreateWindowExW call of WindowState::open

ptvars == <<moved>>

nvars == <<twait, created>>

rfvars == <<vpend, vposted, nfail, flast>>

bvars == <<mdc, cap, downs, ups, blast>>

pvars == <<psurf, plast>>

xvars == <<xopen, xacc, xstream, xsent, xbusy, xlast>>

wvars == <<wtask, wins, cur, tick, wlast>>

evars == <<bvars, ptvars, rfvars, nvars>>

ovars == <<wvars, xvars, pvars, evars>>

lvars == <<held, made, elRefs, taskRefs, winRefs, timRefs, dpc, rel, threads,
           vpc, pending, halt, vq, proc, lev>>

mvars == <<backend, stack, handle, borrowed, winTask, run_state, running,
           panic, quit, events, dirty, aborted, last>>

vars == <<mvars, tvars, lvars, ovars>>

\* ---- frames --------------------------------------------------------------
\* kind, task, win, msg and pc are program state.  A timer handler's frame
\* has the timer id in win, the Key passed to the handler in key and, on x11,
\* the due time of the popped queue entry in time; an x11 pump frame has the
\* now of its Timers::poll pass in time.  The other fields are history of one
\* pump:
\*   exitReq  exit() was called while this pump was the innermost one
\*   failed   payload of the first handler failure during this pump, 0 = none
\*   left     native events queued at entry that are still in the queue
\*   slack    messages made available to this pump (pending at entry, plus
\*            arrivals, minus those taken by others) minus its dispatches
Frame(kind, task, win, msg, pc) ==
    [kind |-> kind, task |-> task, win |-> win, msg |-> msg, pc |-> pc,
     key |-> 0, time |-> 0,
     exitReq |-> FALSE, failed |-> 0, left |-> 0, slack |-> 0]

IsPump(f) == f.kind \in {"run", "poll"}
IsCode(f) == f.kind \in {"with", "handler"}

Top == stack[Len(stack)]
Pop(s) == SubSeq(s, 1, Len(s) - 1)
SetTop(s, f) == [s EXCEPT ![Len(s)] = f]

\* application code is executing: it may call the public operations
TopIsCode == ~aborted /\ (IF stack = <<>> THEN TRUE ELSE IsCode(Top))
TopIsPump == ~aborted /\ (IF stack = <<>> THEN FALSE ELSE IsPump(Top))

PumpCount(s) == Cardinality({i \in 1..Len(s) : IsPump(s[i])})
\* variant: only with()/try_with() hold the Task, a dispatch goes through
\* the Weak alone
Holders_WithOnly(s, t) == {i \in 1..Len(s) : s[i].kind = "with" /\ s[i].task = t}

\* frames that hold a mutable view of task t
Holders(s, t) == {i \in 1..Len(s) : IsCode(s[i]) /\ s[i].task = t}

\* Rc strong count of task t is positive: its handle exists or a dispatch in
\* progress holds task_ref
Alive(t) == handle[t] \/ Holders(stack, t) # {}

Outcome(op, res) ==
    [op |-> op, res |-> res, raised |-> 0, failed |-> 0, exitReq |-> FALSE,
     left |-> 0]
NoRes == Outcome("none", "none")

\* no TimerState was created with this id
NoTimer ==
    [made |-> FALSE, reg |-> FALSE, task |-> 0, key |-> 0, dur |-> 0,
     born |-> 0, cell |-> FALSE, native |-> FALSE, cancelled |-> FALSE]

\* Timers::new
TimersNew ==
    /\ now = 0
    /\ tm = [i \in TimerIds |-> NoTimer]
    /\ next_id = 0
    /\ tqueue = {}
    /\ tmsg = {}

NoEvent == [ev |-> "", d |-> 0, n |-> 0]

\* EventLoop::new on win32: the handle holds the only strong reference, the
\* three registrations are made, one refresh thread per display is started
LoopNew ==
    /\ held = {"EventLoop"}
    /\ made = {"EventLoop"}
    /\ elRefs = {"EventLoop"}
    /\ taskRefs = {}
    /\ winRefs = {}
    /\ timRefs = {}
    /\ dpc = "live"
    /\ rel = [r \in Registrations |-> 0]
    /\ threads = Displays
    /\ vpc = [d \in Displays |-> "check"]
    /\ pending = [d \in Displays |-> FALSE]
    /\ halt = [d \in Displays |-> FALSE]
    /\ vq = [d \in Displays |-> 0]
    /\ proc = [pc |-> "idle", d |-> 0]
    /\ lev = NoEvent

\* a window index before WindowState::open: nothing exists
WindowNew ==
    [made |-> FALSE, handle |-> FALSE, hwnd |-> FALSE, native |-> FALSE,
     child |-> FALSE, ud |-> FALSE, refs |-> {}, udrel |-> 0, uaf |-> FALSE,
     mon |-> 0, mon0 |-> 0]

Idle == [pc |-> "idle", w |-> 0, ev |-> ""]

NoTick == [d |-> 0, todo |-> {}, att |-> [w \in Hwnds |-> 0], closed |-> {}]

NoWin ==
    [op |-> "", w |-> 0, ran |-> FALSE, resp |-> "", def |-> FALSE,
     res |-> ""]

WindowsNew ==
    /\ wtask = "none"
    /\ wins = [w \in Hwnds |-> WindowNew]
    /\ cur = Idle
    /\ tick = NoTick
    /\ wlast = NoWin

NoExpose ==
    [op |-> "", w |-> 0, count |-> 0, len |-> 0, exact |-> FALSE,
     ran |-> FALSE]

ExposeNew ==
    /\ xopen = [w \in Hwnds |-> FALSE]
    /\ xacc = [w \in Hwnds |-> <<>>]
    /\ xstream = <<>>
    /\ xsent = [w \in Hwnds |-> <<>>]
    /\ xbusy = FALSE
    /\ xlast = NoExpose

NoSurface == [some |-> FALSE, width |-> 0, height |-> 0, buf |-> <<>>,
              allocs |-> 0]

NoPresent ==
    [op |-> "", width |-> 0, height |-> 0, before |-> <<>>,
     locked |-> FALSE, ok |-> TRUE]

PresentNew ==
    /\ psurf = NoSurface
    /\ plast = NoPresent

NoButton == [w |-> 0, down |-> FALSE, ran |-> FALSE]

ButtonsNew ==
    /\ mdc = [w \in Hwnds |-> 0]
    /\ cap = [w \in Hwnds |-> FALSE]
    /\ downs = [w \in Hwnds |-> 0]
    /\ ups = [w \in Hwnds |-> 0]
    /\ blast = NoButton

NoMove == [kind |-> "none", px |-> 0, py |-> 0, dpi |-> 96,
           x |-> [num |-> 0, den |-> 1], y |-> [num |-> 0, den |-> 1]]

PointerNew == moved = NoMove

\* a count of milliseconds is hi * 2^16 + lo
Half == 2^16

Millis(hi, lo) == [hi |-> hi, lo |-> lo]

NoWait == [op |-> "", queued |-> FALSE, next |-> Millis(0, 0),
           tnow |-> Millis(0, 0), rem |-> Millis(0, 0), neg |-> FALSE,
           timeout |-> Millis(0, 0)]

NoCreate == [op |-> "", positioned |-> FALSE, child |-> FALSE, px |-> 0,
             py |-> 0, dpi |-> 96, x |-> 0, y |-> 0]

NativeNew ==
    /\ twait = NoWait
    /\ created = NoCreate

NoRefresh == [op |-> "", m |-> 0, out |-> "", nfail |-> 0, raised |-> 0]

RefreshNew ==
    /\ vpend = [m \in Monitors |-> FALSE]
    /\ vposted = {}
    /\ nfail = 0
    /\ flast = NoRefresh

Init ==
    /\ backend \in Backends
    /\ PointerNew
    /\ RefreshNew
    /\ NativeNew
    /\ TimersNew
    /\ LoopNew
    /\ WindowsNew
    /\ ExposeNew
    /\ PresentNew
    /\ ButtonsNew
    /\ stack = <<>>
    /\ handle = [t \in Tasks |-> FALSE]
    /\ borrowed = [t \in Tasks |-> FALSE]
    /\ winTask = [w \in Windows |-> 0]
    /\ run_state = "Stopped"
    /\ running = FALSE
    /\ panic = 0
    /\ quit = FALSE
    /\ events = <<>>
    /\ dirty = {}
    /\ aborted = FALSE
    /\ last = NoRes

\* ---- the machine state threaded through unwinding ------------------------
M0 ==
    [stack |-> stack, borrowed |-> borrowed, run_state |-> run_state,
     running |-> running, panic |-> panic, quit |-> quit,
     aborted |-> aborted, last |-> NoRes]

Apply(m) ==
    /\ stack' = m.stack
    /\ borrowed' = m.borrowed
    /\ run_state' = m.run_state
    /\ running' = m.running
    /\ panic' = m.panic
    /\ quit' = m.quit
    /\ aborted' = m.aborted
    /\ last' = m.last

\* ---- task.rs / handle_event: resolving a Task -----------------------------
Upgrade_Strong(t) == t # 0

\* Weak::upgrade of the resource's handler
Upgrade(t) == t # 0 /\ Alive(t)

\* variant: the borrow flag is not consulted
TryBorrowMut_Always(b, t) == TRUE

\* RefCell::try_borrow_mut succeeds
TryBorrowMut(b, t) == ~b[t]

\* handle_event / handle_timer reach Task::event: upgrade()? then
\* try_borrow_mut().ok()?
Resolves(b, t) == Upgrade(t) /\ TryBorrowMut(b, t)

\* variant: the guard admits every caller
GuardAdmits_Always(rs, rn) == TRUE

\* ---- RunGuard --------------------------------------------------------------
\* RunGuard::new admits the caller
GuardAdmits(rs, rn) ==
    IF backend = "x11" THEN rs # "Running" ELSE ~rn

\* the extra check at the head of the x11 poll()
PollPrecheck(rs) ==
    IF backend = "x11" THEN rs = "Stopped" ELSE TRUE

\* RunGuard::new, admitted: the state is set to Running
GuardEnter(m) ==
    IF backend = "x11" THEN [m EXCEPT !.run_state = "Running"]
    ELSE [m EXCEPT !.running = TRUE]

\* variant: dropping the guard leaves the state as it is
GuardDrop_Noop(m) == m

\* impl Drop for RunGuard
GuardDrop(m) ==
    IF backend = "x11" THEN [m EXCEPT !.run_state = "Stopped"]
    ELSE [m EXCEPT !.running = FALSE]

\* ---- history bookkeeping on frames ----------------------------------------
InnermostPump(s) ==
    LET P == {i \in 1..Len(s) : IsPump(s[i])}
    IN IF P = {} THEN 0 ELSE CHOOSE i \in P : \A j \in P : j <= i

\* a handler dispatched while the pumps of s were in progress failed with id
MarkFailed(s, id) ==
    LET i == InnermostPump(s)
    IN IF i = 0 \/ s[i].failed # 0 THEN s
       ELSE [s EXCEPT ![i] = [@ EXCEPT !.failed = id]]

\* exit() was called while the pumps of s were in progress
MarkExit(s) ==
    LET i == InnermostPump(s)
    IN IF i = 0 THEN s ELSE [s EXCEPT ![i] = [@ EXCEPT !.exitReq = TRUE]]

\* one native event left the queue, taken by the pump on top of s (own) or
\* by someone else
MarkDequeue(s, own) ==
    [i \in DOMAIN s |->
        IF s[i].kind = "poll"
        THEN [s[i] EXCEPT !.left = IF @ > 0 THEN @ - 1 ELSE 0,
                          !.slack = IF (own /\ i = Len(s)) \/ @ > 0
                                    THEN @ - 1 ELSE @]
        ELSE s[i]]

\* one native event (or repaint request) arrived
MarkArrival(s) ==
    [i \in DOMAIN s |->
        IF s[i].kind = "poll" THEN [s[i] EXCEPT !.slack = @ + 1] ELSE s[i]]

\* the pump on top of s dispatched a message that stays pending (WM_PAINT)
MarkDispatch(s) ==
    IF s[Len(s)].kind = "poll"
    THEN [s EXCEPT ![Len(s)] = [@ EXCEPT !.slack = @ - 1]] ELSE s

\* the dispatch counter is capped once it has overrun
DispatchOk == Top.slack >= 0

\* payload of a new failure: 1 for the first failure during the innermost pump
\* (or outside every pump), 2 for a later one
Payload(s) ==
    LET i == InnermostPump(s)
    IN IF i # 0 /\ s[i].failed # 0 THEN 2 ELSE 1

\* variant: the payload is not stored, the loop is only asked to quit
propagate_panic_NoStore(m, id) ==
    IF m.running THEN [m EXCEPT !.quit = TRUE] ELSE [m EXCEPT !.aborted = TRUE]

\* variant: the payload is stored whether or not the loop is running
propagate_panic_AlwaysStore(m, id) == [m EXCEPT !.panic = id, !.quit = TRUE]

\* ---- panic propagation ------------------------------------------------------
\* EventLoopState::propagate_panic (win32, cocoa)
propagate_panic(m, id) ==
    IF m.running
    THEN [m EXCEPT !.panic = id, !.quit = TRUE]
    ELSE [m EXCEPT !.aborted = TRUE]

RetOf(f, res, raised) ==
    [op |-> f.kind, res |-> res, raised |-> raised, failed |-> f.failed,
     exitReq |-> f.exitReq, left |-> f.left]

IsRet(r) == r.op \in {"run", "poll"}

\* A failure with payload id is raised in the code of the top frame of
\* m.stack and unwinds.  with/try_with: the RefMut is dropped and the panic
\* continues in the caller.  handler on win32/cocoa: catch_unwind in the
\* native callback (wnd_proc, View::catch_unwind, timer callback), then
\* propagate_panic.  handler on x11: nothing catches, the panic unwinds
\* through drain_events and run/poll, dropping the RunGuard.
RefMutDrop_Leak(b, t) == b

\* the RefMut of task t is dropped: the RefCell is unborrowed
RefMutDrop(b, t) == [b EXCEPT ![t] = FALSE]

RECURSIVE Unwind(_, _)
Unwind(m, id) ==
    IF m.stack = <<>>
    THEN IF IsRet(m.last) THEN m ELSE [m EXCEPT !.last = Outcome("app", "panic")]
    ELSE
      LET f == m.stack[Len(m.stack)]
          rest == Pop(m.stack)
      IN CASE f.kind = "with" ->
                Unwind([m EXCEPT !.stack = rest,
                                 !.borrowed = RefMutDrop(@, f.task)], id)
           [] f.kind = "handler" ->
                LET m1 == [m EXCEPT !.stack = MarkFailed(rest, id),
                                    !.borrowed = RefMutDrop(@, f.task)]
                IN IF backend = "x11"
                   THEN Unwind(m1, id)
                   ELSE [propagate_panic(m1, id) EXCEPT
                            !.last = IF IsRet(@) THEN @
                                     ELSE Outcome("event", "caught")]
           [] OTHER ->
                Unwind([GuardDrop(m) EXCEPT !.stack = rest,
                                            !.last = RetOf(f, "panic", id)], id)

\* variant: the panic cell is read but left occupied
ReturnPump_Keep(m, res) ==
    LET f == m.stack[Len(m.stack)]
        taken == IF backend = "x11" THEN 0 ELSE m.panic
        m1 == GuardDrop([m EXCEPT !.stack = Pop(m.stack)])
    IN IF taken # 0
       THEN Unwind([m1 EXCEPT !.last = RetOf(f, "panic", taken)], taken)
       ELSE [m1 EXCEPT !.last = RetOf(f, res, 0)]

\* run()/poll() leave their loop with result res: the panic cell is taken and
\* re-raised if occupied (win32, cocoa), the RunGuard is dropped
ReturnPump(m, res) ==
    LET f == m.stack[Len(m.stack)]
        taken == IF backend = "x11" THEN 0 ELSE m.panic
        m1 == GuardDrop([m EXCEPT !.stack = Pop(m.stack),
                                  !.panic = IF backend = "x11" THEN @ ELSE 0])
    IN IF taken # 0
       THEN Unwind([m1 EXCEPT !.last = RetOf(f, "panic", taken)], taken)
       ELSE [m1 EXCEPT !.last = RetOf(f, res, 0)]

\* ---- dispatch to a Task -----------------------------------------------------
\* WindowState::handle_event for window w and message msg: the handler frame
\* is entered if the Task resolves, else the event is dropped
HandleEvent(m, w, msg) ==
    LET t == winTask[w]
    IN IF Resolves(m.borrowed, t)
       THEN [m EXCEPT !.stack = Append(@, Frame("handler", t, w, msg, "")),
                      !.borrowed = [@ EXCEPT ![t] = TRUE]]
       ELSE [m EXCEPT !.last = Outcome("event", "dropped")]

\* ---- operations called by application code ---------------------------------
\* EventLoop::spawn
Spawn(t) ==
    /\ TopIsCode
    /\ ~handle[t] /\ Holders(stack, t) = {}
    /\ \A w \in Windows : winTask[w] # t
    /\ \A i \in TimerIds : tm[i].task # t
    /\ handle' = [handle EXCEPT ![t] = TRUE]
    /\ Apply(M0)
    /\ UNCHANGED <<ovars, lvars, tvars, backend, winTask, events, dirty>>

\* drop(TaskHandle); a handle cannot be dropped while borrowed by its own
\* with()/try_with() call
DropTask(t) ==
    /\ TopIsCode
    /\ handle[t]
    /\ \A i \in Holders(stack, t) : stack[i].kind # "with"
    /\ handle' = [handle EXCEPT ![t] = FALSE]
    /\ Apply(M0)
    /\ UNCHANGED <<ovars, lvars, tvars, backend, winTask, events, dirty>>

\* TaskHandle::try_with
try_with(m, t) ==
    IF TryBorrowMut(m.borrowed, t)
    THEN [m EXCEPT !.stack = Append(@, Frame("with", t, 0, "", "")),
                   !.borrowed = [@ EXCEPT ![t] = TRUE]]
    ELSE [m EXCEPT !.last = Outcome("try_with", "BorrowMutError")]

TryWith(t) ==
    /\ TopIsCode
    /\ handle[t]
    /\ TryBorrowMut(borrowed, t) => Len(stack) < MaxDepth
    /\ Apply(try_with(M0, t))
    /\ UNCHANGED <<ovars, lvars, tvars, backend, handle, winTask, events, dirty>>

\* TaskHandle::with
with(m, t) ==
    IF TryBorrowMut(m.borrowed, t)
    THEN [m EXCEPT !.stack = Append(@, Frame("with", t, 0, "", "")),
                   !.borrowed = [@ EXCEPT ![t] = TRUE]]
    ELSE \* panic!("already mutably borrowed") in the caller
         Unwind([m EXCEPT !.last = Outcome("with", "panic")],
                Payload(m.stack))

With(t) ==
    /\ TopIsCode
    /\ handle[t]
    /\ TryBorrowMut(borrowed, t) => Len(stack) < MaxDepth
    /\ Apply(with(M0, t))
    /\ UNCHANGED <<ovars, lvars, tvars, backend, handle, winTask, events, dirty>>

\* x11 Timers::poll after the handler of the popped entry returned: the entry
\* pushed for the timer's next firing, tnow being the pass's `now`
Requeue(f, tnow) ==
    LET next_time == f.time + tm[f.win].dur
    IN [time |-> IF next_time > tnow THEN next_time ELSE tnow, id |-> f.win]

\* the closure of with/try_with or Task::event returns normally; wnd_proc
\* validates the update region after the handler of WM_PAINT has run
Return ==
    /\ ~aborted /\ stack # <<>> /\ IsCode(Top)
    /\ Apply([M0 EXCEPT !.stack = Pop(@),
                        !.borrowed = RefMutDrop(@, Top.task),
                        !.last = Outcome(IF Top.kind = "with" THEN "with"
                                         ELSE "event", "Ok")])
    /\ dirty' = IF Top.msg = "paint" THEN dirty \ {Top.win} ELSE dirty
    /\ tqueue' = IF backend = "x11" /\ Top.msg = "timer"
                 THEN tqueue \cup {Requeue(Top, stack[Len(stack) - 1].time)}
                 ELSE tqueue
    /\ UNCHANGED <<now, tm, next_id, tmsg>>
    /\ UNCHANGED <<ovars, lvars, backend, handle, winTask, events>>

\* the closure of with/try_with or Task::event panics
Fail ==
    /\ ~aborted /\ stack # <<>> /\ IsCode(Top)
    /\ Apply(Unwind(M0, Payload(stack)))
    /\ UNCHANGED <<ovars, lvars, tvars, backend, handle, winTask, events, dirty>>

\* WindowOptions::open with the Context of the running closure or handler
Open(w) ==
    /\ TopIsCode /\ stack # <<>>
    /\ winTask[w] = 0
    /\ winTask' = [winTask EXCEPT ![w] = Top.task]
    /\ Apply(M0)
    /\ UNCHANGED <<ovars, lvars, tvars, backend, handle, events, dirty>>

\* EventLoopState::exit.  x11: run_state.set(Exiting).  win32: if running,
\* PostQuitMessage.  cocoa: if running, [NSApp stop] and a wake-up event.
exit(m) ==
    IF backend = "x11" THEN [m EXCEPT !.run_state = "Exiting"]
    ELSE IF m.running THEN [m EXCEPT !.quit = TRUE] ELSE m

Exit ==
    /\ TopIsCode
    /\ Apply([exit(M0) EXCEPT !.stack = MarkExit(@),
                              !.last = Outcome("exit", "Ok")])
    /\ UNCHANGED <<ovars, lvars, tvars, backend, handle, winTask, events, dirty>>

PumpFrame(kind) ==
    [Frame(kind, 0, 0, "", IF backend = "x11" THEN "drain1" ELSE "loop")
        EXCEPT !.left = IF kind = "poll" THEN Len(events) ELSE 0,
               !.slack = IF kind = "poll"
                         THEN Len(events) + Cardinality(dirty)
                              + Cardinality(tmsg)
                         ELSE 0]

\* EventLoopState::run up to the head of its loop
Run ==
    /\ TopIsCode
    /\ GuardAdmits(run_state, running) => Len(stack) < MaxDepth
    /\ IF GuardAdmits(run_state, running)
       THEN Apply([GuardEnter(M0) EXCEPT !.stack = Append(@, PumpFrame("run"))])
       ELSE Apply([M0 EXCEPT !.last = Outcome("run", "AlreadyRunning")])
    /\ UNCHANGED <<ovars, lvars, tvars, backend, handle, winTask, events, dirty>>

\* EventLoopState::poll up to the head of its loop.  The cocoa poll has no
\* loop ("TODO: poll events"): it takes the guard, re-raises a stored panic
\* and returns.
Poll ==
    /\ TopIsCode
    /\ IF PollPrecheck(run_state) /\ GuardAdmits(run_state, running)
       THEN /\ Len(stack) < MaxDepth
            /\ LET m == [GuardEnter(M0) EXCEPT
                            !.stack = Append(@, PumpFrame("poll"))]
               IN IF backend = "cocoa"
                  THEN Apply(ReturnPump(m, "Ok"))
                  ELSE Apply(m)
       ELSE Apply([M0 EXCEPT !.last = Outcome("poll", "AlreadyRunning")])
    /\ UNCHANGED <<ovars, lvars, tvars, backend, handle, winTask, events, dirty>>

\* ---- the x11 pump ------------------------------------------------------------
\* run:  loop { drain_events; timers.poll; drain_events; exit check; wait }
\* poll: drain_events; timers.poll; drain_events; return
NextPc(f) ==
    CASE f.pc = "drain1" -> "timers"
      [] f.pc = "timers" -> "tloop"
      [] f.pc = "tloop" -> "drain2"
      [] f.pc = "drain2" -> "check"
      [] f.pc = "check" -> "wait"
      [] OTHER -> "drain1"

AdvanceTop(s) == SetTop(s, [s[Len(s)] EXCEPT !.pc = NextPc(s[Len(s)])])

Advance(m) == [m EXCEPT !.stack = AdvanceTop(@)]

\* one iteration of the loop of EventLoopState::drain_events; err: the
\* connection reports an error from poll_for_event
X11Drain(err) ==
    /\ backend = "x11" /\ TopIsPump /\ Top.pc \in {"drain1", "drain2"}
    /\ IF run_state = "Exiting"
       THEN ~err /\ Apply(Advance(M0)) /\ UNCHANGED events
       ELSE IF err
       THEN Apply(ReturnPump(M0, "Err")) /\ UNCHANGED events
       ELSE IF events = <<>>
       THEN Apply(Advance(M0)) /\ UNCHANGED events
       ELSE /\ DispatchOk
            /\ events' = Tail(events)
            /\ LET w == Head(events)
                   m == [M0 EXCEPT !.stack = MarkDequeue(@, TRUE)]
               IN \* get_window: the window is in the registry
                  IF winTask[w] # 0
                  THEN Apply(HandleEvent(m, w, "input"))
                  ELSE Apply(m)
    /\ UNCHANGED <<ovars, lvars, tvars, backend, handle, winTask, dirty>>

DueEntries_All(q, tnow) == {e \in q : \A o \in q : e.time <= o.time}

\* the entries Timers::poll may pop next: BinaryHeap::peek yields an entry of
\* least time, and poll goes on while that time is < now
DueEntries(q, tnow) ==
    {e \in q : e.time < tnow /\ \A o \in q : e.time <= o.time}

\* self.timers.poll() between the two drains.  pc "timers": now is read;
\* pc "tloop": one iteration of the while loop.  The handler of the old
\* closure API takes the application's data, no Task is resolved.
X11Timers ==
    /\ backend = "x11" /\ TopIsPump /\ Top.pc \in {"timers", "tloop"}
    /\ IF Top.pc = "timers"
       THEN /\ Apply([M0 EXCEPT !.stack =
                        SetTop(@, [Top EXCEPT !.pc = "tloop", !.time = now])])
            /\ UNCHANGED tqueue
       ELSE IF DueEntries(tqueue, Top.time) = {}
       THEN Apply(Advance(M0)) /\ UNCHANGED tqueue
       ELSE \E e \in DueEntries(tqueue, Top.time) :
               /\ tqueue' = tqueue \ {e}
               /\ IF tm[e.id].reg
                  THEN Apply([M0 EXCEPT !.stack = Append(@,
                          [Frame("handler", 0, e.id, "timer", "") EXCEPT
                              !.key = tm[e.id].key, !.time = e.time])])
                  ELSE \* not in self.timers: it has been canceled
                       Apply(M0)
    /\ UNCHANGED <<now, tm, next_id, tmsg>>
    /\ UNCHANGED <<ovars, lvars, backend, handle, winTask, events, dirty>>

\* after the second drain: poll returns; run breaks if Exiting, else goes on
\* to the blocking wait
X11Check ==
    /\ backend = "x11" /\ TopIsPump /\ Top.pc = "check"
    /\ IF Top.kind = "poll" \/ run_state = "Exiting"
       THEN Apply(ReturnPump(M0, "Ok"))
       ELSE Apply(Advance(M0))
    /\ UNCHANGED <<ovars, lvars, tvars, backend, handle, winTask, events, dirty>>

\* libc::poll on the connection's descriptor returns (readable, hang-up or
\* interrupted; its result is not inspected)
X11Wait ==
    /\ backend = "x11" /\ TopIsPump /\ Top.pc = "wait"
    /\ Apply(Advance(M0))
    /\ UNCHANGED <<ovars, lvars, tvars, backend, handle, winTask, events, dirty>>

\* ---- the win32 pump ----------------------------------------------------------
\* the message GetMessageW / PeekMessageW retrieves next: WM_QUIT once the
\* posted queue is empty, then input, then WM_PAINT, then WM_TIMER
NextMsg ==
    IF quit THEN "quit"
    ELSE IF events # <<>> THEN "input"
    ELSE IF dirty # {} THEN "paint"
    ELSE IF tmsg # {} THEN "timer"
    ELSE "none"

\* wnd_proc / the View callbacks for an input message or WM_PAINT of window w
wnd_proc(m, w, msg) ==
    \* GWLP_USERDATA is null for a window that has no state
    IF winTask[w] = 0 THEN m ELSE HandleEvent(m, w, msg)

\* one iteration of the loop of run (GetMessageW) or poll (PeekMessageW);
\* err: GetMessageW returns -1
Win32Step(err) ==
    /\ backend = "win32" /\ TopIsPump
    /\ IF err
       THEN /\ Top.kind = "run"
            /\ Apply(ReturnPump(M0, "Err")) /\ UNCHANGED events
       ELSE CASE NextMsg = "quit" ->
                    /\ Apply(ReturnPump([M0 EXCEPT !.quit = FALSE], "Ok"))
                    /\ UNCHANGED events
              [] NextMsg = "input" ->
                    /\ DispatchOk
                    /\ events' = Tail(events)
                    /\ Apply(wnd_proc(
                          [M0 EXCEPT !.stack = MarkDequeue(@, TRUE)],
                          Head(events), "input"))
              [] NextMsg = "paint" ->
                    /\ DispatchOk
                    /\ \E w \in dirty :
                          Apply(wnd_proc(
                             [M0 EXCEPT !.stack = MarkDispatch(@)], w, "paint"))
                    /\ UNCHANGED events
              [] NextMsg = "timer" ->
                    \* dispatched to message_wnd_proc: Win32Timer
                    FALSE
              [] OTHER ->
                    \* PeekMessageW returns 0; GetMessageW blocks
                    /\ Top.kind = "poll"
                    /\ Apply(ReturnPump(M0, "Ok"))
                    /\ UNCHANGED events
    /\ UNCHANGED <<ovars, lvars, tvars, backend, handle, winTask, dirty>>

\* ---- the cocoa pump ----------------------------------------------------------
\* [NSApp run]: returns once stop was requested, else dispatches the next
\* event to the View's callback
CocoaStep ==
    /\ backend = "cocoa" /\ TopIsPump
    /\ IF quit
       THEN /\ Apply(ReturnPump([M0 EXCEPT !.quit = FALSE], "Ok"))
            /\ UNCHANGED events
       ELSE /\ events # <<>>
            /\ events' = Tail(events)
            /\ Apply(wnd_proc([M0 EXCEPT !.stack = MarkDequeue(@, TRUE)],
                              Head(events), "input"))
    /\ UNCHANGED <<ovars, lvars, tvars, backend, handle, winTask, dirty>>

\* ---- native callbacks outside run()/poll() -----------------------------------
\* win32 / cocoa: a message loop that is not run()/poll() (the host of a guest
\* loop, a modal loop entered by application code) delivers the next input
\* event to the window procedure / View callback
NativeCallback ==
    /\ backend # "x11" /\ TopIsCode
    /\ Len(stack) < MaxDepth
    /\ events # <<>>
    /\ events' = Tail(events)
    /\ Apply(wnd_proc([M0 EXCEPT !.stack = MarkDequeue(@, FALSE)],
                      Head(events), "input"))
    /\ UNCHANGED <<ovars, lvars, tvars, backend, handle, winTask, dirty>>

\* ---- the environment ----------------------------------------------------------
\* the platform queues an input event for an open window
NativeEvent(w) ==
    /\ ~aborted
    /\ winTask[w] # 0
    /\ Len(events) < MaxQueue
    /\ events' = Append(events, w)
    /\ Apply([M0 EXCEPT !.stack = MarkArrival(@)])
    /\ UNCHANGED <<ovars, lvars, tvars, backend, handle, winTask, dirty>>

\* win32: part of an open window becomes invalid
Invalidate(w) ==
    /\ ~aborted
    /\ backend = "win32"
    /\ winTask[w] # 0 /\ w \notin dirty
    /\ dirty' = dirty \cup {w}
    /\ Apply([M0 EXCEPT !.stack = MarkArrival(@)])
    /\ UNCHANGED <<ovars, lvars, tvars, backend, handle, winTask, events>>

\* ---- timers -------------------------------------------------------------------
\* x11: a handler called by Timers::poll is running; the Ref of Timers.timers
\* taken in the condition of poll's `if let` lives until the end of its block
RegistryBorrowed(s) ==
    /\ backend = "x11"
    /\ \E i \in DOMAIN s : s[i].kind = "handler" /\ s[i].msg = "timer"

\* the application gives each of its timers a Key of its own
KeyOf(id) == id + 1

\* the TimerState built by set_timer / repeat for Task t (0: the handler is a
\* closure over the application's data)
NewTimer(t, k, d) ==
    [made |-> TRUE, reg |-> TRUE, task |-> t, key |-> k, dur |-> d,
     born |-> now, cell |-> backend = "win32", native |-> backend = "win32",
     cancelled |-> FALSE]

\* x11 Timers::set_timer; win32 TimerInner::repeat, called with the Context of
\* the running closure or handler
TimerRepeat(k, d) ==
    /\ TopIsCode
    /\ backend = "win32" => stack # <<>>
    /\ next_id < MaxTimers
    /\ next_id' = next_id + 1
    /\ IF RegistryBorrowed(stack)
       THEN \* self.timers.borrow_mut() panics: already borrowed
            /\ Apply(Unwind([M0 EXCEPT !.last = Outcome("repeat", "panic")],
                            Payload(stack)))
            /\ UNCHANGED <<tm, tqueue>>
       ELSE /\ tm' = [tm EXCEPT ![next_id] =
                        NewTimer(IF backend = "win32" THEN Top.task ELSE 0,
                                 k, d)]
            /\ tqueue' = IF backend = "x11"
                         THEN tqueue \cup {[time |-> now + d, id |-> next_id]}
                         ELSE tqueue
            /\ Apply([M0 EXCEPT !.last = Outcome("repeat", "Ok")])
    /\ UNCHANGED <<now, tmsg>>
    /\ UNCHANGED <<ovars, lvars, backend, handle, winTask, events, dirty>>

cancel_Keep(t) == [t EXCEPT !.cancelled = TRUE]

\* TimerInner::cancel on the timer created with id.  x11: remove from the
\* registry.  win32: if timer_id is Some, remove from the registry; then
\* TimerState::cancel takes timer_id and kills the native timer (a WM_TIMER
\* already retrieved for posting stays outstanding).
cancel(t) ==
    IF backend = "x11" THEN [t EXCEPT !.reg = FALSE, !.cancelled = TRUE]
    ELSE IF t.cell
         THEN [t EXCEPT !.reg = FALSE, !.cell = FALSE, !.native = FALSE,
                        !.cancelled = TRUE]
         ELSE [t EXCEPT !.cancelled = TRUE]

RegistryRemove_All(r, id) == [i \in DOMAIN r |-> cancel(r[i])]

\* the registry and timer states after cancel() of timer id
RegistryRemove(r, id) == [r EXCEPT ![id] = cancel(@)]

TimerCancel(id) ==
    /\ TopIsCode
    /\ tm[id].made
    /\ IF RegistryBorrowed(stack)
       THEN \* app_state.timers.timers.borrow_mut() panics: already borrowed
            /\ Apply(Unwind([M0 EXCEPT !.last = Outcome("cancel", "panic")],
                            Payload(stack)))
            /\ UNCHANGED tm
       ELSE /\ tm' = RegistryRemove(tm, id)
            /\ Apply([M0 EXCEPT !.last = Outcome("cancel", "Ok")])
    /\ UNCHANGED <<now, next_id, tqueue, tmsg>>
    /\ UNCHANGED <<ovars, lvars, backend, handle, winTask, events, dirty>>

\* Timers::handle_timer (win32): the registry is looked up, then the Task is
\* resolved as in WindowState::handle_event
handle_timer(m, id) ==
    IF ~tm[id].reg THEN m
    ELSE IF Resolves(m.borrowed, tm[id].task)
    THEN [m EXCEPT !.stack = Append(@,
             [Frame("handler", tm[id].task, id, "timer", "") EXCEPT
                 !.key = tm[id].key]),
                   !.borrowed = [@ EXCEPT ![tm[id].task] = TRUE]]
    ELSE [m EXCEPT !.last = Outcome("event", "dropped")]

\* run / poll retrieve a WM_TIMER and dispatch it to message_wnd_proc
Win32Timer ==
    /\ backend = "win32" /\ TopIsPump
    /\ NextMsg = "timer"
    /\ DispatchOk
    /\ \E id \in tmsg :
          /\ tmsg' = tmsg \ {id}
          /\ Apply(handle_timer([M0 EXCEPT !.stack = MarkDispatch(@)], id))
    /\ UNCHANGED <<now, tm, next_id, tqueue>>
    /\ UNCHANGED <<ovars, lvars, backend, handle, winTask, events, dirty>>

\* the clock read by the software timer queue advances
Tick ==
    /\ ~aborted
    /\ backend = "x11"
    /\ now < MaxTime
    /\ now' = now + 1
    /\ Apply(M0)
    /\ UNCHANGED <<tm, next_id, tqueue, tmsg>>
    /\ UNCHANGED <<ovars, lvars, backend, handle, winTask, events, dirty>>

\* win32: the period of a native timer set by SetTimer elapses
NativeTick(id) ==
    /\ ~aborted
    /\ backend = "win32"
    /\ tm[id].native /\ id \notin tmsg
    /\ tmsg' = tmsg \cup {id}
    /\ Apply([M0 EXCEPT !.stack = MarkArrival(@)])
    /\ UNCHANGED <<now, tm, next_id, tqueue>>
    /\ UNCHANGED <<ovars, lvars, backend, handle, winTask, events, dirty>>

Next ==
    \/ \E t \in Tasks : Spawn(t)
    \/ \E t \in Tasks : DropTask(t)
    \/ \E t \in Tasks : TryWith(t)
    \/ \E t \in Tasks : With(t)
    \/ Return
    \/ Fail
    \/ \E w \in Windows : Open(w)
    \/ Exit
    \/ Run
    \/ Poll
    \/ \E err \in BOOLEAN : X11Drain(err)
    \/ X11Timers
    \/ X11Check
    \/ X11Wait
    \/ \E err \in BOOLEAN : Win32Step(err)
    \/ CocoaStep
    \/ NativeCallback
    \/ \E w \in Windows : NativeEvent(w)
    \/ \E w \in Windows : Invalidate(w)

Spec == Init /\ [][Next]_vars

\* the loop with timers, on the backends whose timer code is
\* present.  x11: software queue, handlers are closures over the application's
\* data, so Tasks take no part.  win32: native timers, handlers are Tasks.
\* All timers belong to one Task (task 1), which may also open window 1.
TimerInit == Init /\ backend \in {"x11", "win32"}

TimerNext ==
    \/ backend = "win32" /\ Spawn(1)
    \/ backend = "win32" /\ DropTask(1)
    \/ backend = "win32" /\ TryWith(1)
    \/ backend = "win32" /\ Open(1)
    \/ backend = "win32" /\ NativeEvent(1)
    \/ Return
    \/ Fail
    \/ Run
    \/ Poll
    \/ X11Drain(FALSE)
    \/ X11Timers
    \/ X11Check
    \/ X11Wait
    \/ Win32Step(FALSE)
    \/ Win32Timer
    \/ \E d \in Durations :
          /\ backend = "x11" => next_id < MaxSoftTimers
          /\ TimerRepeat(KeyOf(next_id), d)
    \/ \E id \in TimerIds : TimerCancel(id)
    \/ Tick
    \/ \E id \in TimerIds : NativeTick(id)

TimerSpec == TimerInit /\ [][TimerNext]_vars

\* the software timer queue of x11 alone, pumped by poll() from the
\* application's own code, with several timers and with durations of zero;
\* timers are created before the clock advances or by a timer's handler
PollDurations == {0, 2}

PollInit == Init /\ backend = "x11"

PollNext ==
    \/ stack = <<>> /\ Poll
    \/ X11Drain(FALSE)
    \/ X11Timers
    \/ X11Check
    \/ Return
    \/ \E d \in PollDurations :
          /\ stack = <<>> => now = 0
          /\ TimerRepeat(KeyOf(next_id), d)
    \/ \E id \in TimerIds : TimerCancel(id)
    \/ Tick

PollSpec == PollInit /\ [][PollNext]_vars

\* the x11 pump with its software timers and exit(): run() and poll() are
\* called from the top of the program, timers are set before the pump is
\* entered, and exit() is called by a handler
ExitNext ==
    \/ stack = <<>> /\ Run
    \/ stack = <<>> /\ Poll
    \/ X11Drain(FALSE)
    \/ X11Timers
    \/ X11Check
    \/ X11Wait
    \/ Return
    \/ stack # <<>> /\ Exit
    \/ \E d \in Durations :
          /\ stack = <<>> /\ now = 0
          /\ TimerRepeat(KeyOf(next_id), d)
    \/ Tick

ExitSpec == PollInit /\ [][ExitNext]_vars

\* ---- ownership, refresh threads and teardown (win32) ---------------------------
\* what just happened, for display d (0: none)
Event(e, d) == [ev |-> e, d |-> d, n |-> 1 - lev.n]

LoopDropped_Handle(e) == "EventLoop" \notin e

\* the loop state is dropped when its last strong reference goes
LoopDropped(e) == e = {}

\* Weak<EventLoopState>::upgrade in message_wnd_proc
UpgradeLoop(e) == e # {}

\* a WindowState / TimerState that lost its last reference drops its
\* event_loop field
Cascade(e, w, t) ==
    (e \ (IF w = {} THEN {"WindowState"} ELSE {}))
       \ (IF t = {} THEN {"TimerState"} ELSE {})

\* references were given up: e, k, w, t are the holders left of the loop
\* state, the Task, the WindowState and the TimerState.  Drop for
\* EventLoopState starts when the loop state has no holder left.
Release(e, k, w, t) ==
    /\ taskRefs' = k
    /\ winRefs' = w
    /\ timRefs' = t
    /\ elRefs' = Cascade(e, w, t)
    /\ dpc' = IF dpc = "live" /\ LoopDropped(Cascade(e, w, t))
              THEN "unregister_class" ELSE dpc

\* the dispatch thread is not inside Drop for EventLoopState
NotInDrop == dpc \in {"live", "dead"}
\* application code can run: outside every callback, or in a handler
AppRuns == NotInDrop /\ proc.pc \in {"idle", "handler"}
\* a message can be dispatched
CanDispatch == NotInDrop /\ proc.pc = "idle"

\* EventLoop::spawn
LSpawn ==
    /\ AppRuns /\ "EventLoop" \in held /\ "TaskHandle" \notin made
    /\ held' = held \cup {"TaskHandle"}
    /\ made' = made \cup {"TaskHandle"}
    /\ taskRefs' = {"TaskHandle"}
    /\ elRefs' = elRefs \cup {"TaskHandle"}
    /\ UNCHANGED <<winRefs, timRefs, dpc, rel, threads, vpc, pending, halt,
                   vq, proc, lev>>
    /\ UNCHANGED <<mvars, tvars, ovars>>

\* WindowState::open inside TaskHandle::with: the handle, the registry and
\* GWLP_USERDATA each get an Rc<WindowState>
LOpen ==
    /\ AppRuns /\ "TaskHandle" \in held /\ "Window" \notin made
    /\ held' = held \cup {"Window"}
    /\ made' = made \cup {"Window"}
    /\ winRefs' = {"Window", "registry", "userdata"}
    /\ elRefs' = elRefs \cup {"WindowState"}
    /\ UNCHANGED <<taskRefs, timRefs, dpc, rel, threads, vpc, pending, halt,
                   vq, proc, lev>>
    /\ UNCHANGED <<mvars, tvars, ovars>>

\* TimerInner::repeat inside TaskHandle::with
LRepeat ==
    /\ AppRuns /\ "TaskHandle" \in held /\ "Timer" \notin made
    /\ held' = held \cup {"Timer"}
    /\ made' = made \cup {"Timer"}
    /\ timRefs' = {"Timer", "registry"}
    /\ elRefs' = elRefs \cup {"TimerState"}
    /\ UNCHANGED <<taskRefs, winRefs, dpc, rel, threads, vpc, pending, halt,
                   vq, proc, lev>>
    /\ UNCHANGED <<mvars, tvars, ovars>>

\* WindowState::close: the registry entry is removed, DestroyWindow sends
\* WM_DESTROY and wnd_proc drops the Rc kept in GWLP_USERDATA
close(w) == w \ {"registry", "userdata"}

TimerInner_cancel_Native(t) == t

\* TimerInner::cancel: the registry entry is removed, the native timer killed
TimerInner_cancel(t) == t \ {"registry"}

\* a handle is dropped
DropHandle(h) ==
    /\ AppRuns /\ h \in held
    /\ held' = held \ {h}
    /\ Release(elRefs \ (IF h \in {"EventLoop", "TaskHandle"} THEN {h} ELSE {}),
               IF h = "TaskHandle" THEN taskRefs \ {h} ELSE taskRefs,
               IF h = "Window" THEN close(winRefs) \ {h} ELSE winRefs,
               IF h = "Timer" THEN TimerInner_cancel(timRefs) \ {h}
               ELSE timRefs)
    /\ UNCHANGED <<made, rel, threads, vpc, pending, halt, vq, proc, lev>>
    /\ UNCHANGED <<mvars, tvars, ovars>>

\* a message for the window arrives at wnd_proc (the window exists and its
\* GWLP_USERDATA is set): handle_event runs the handler if the Task is alive
LWindowEvent ==
    /\ CanDispatch /\ "userdata" \in winRefs
    /\ lev' = Event(IF taskRefs # {} THEN "handler" ELSE "silent", 0)
    /\ UNCHANGED <<held, made, elRefs, taskRefs, winRefs, timRefs, dpc, rel,
                   threads, vpc, pending, halt, vq, proc>>
    /\ UNCHANGED <<mvars, tvars, ovars>>

\* WM_TIMER arrives at message_wnd_proc (the message window exists and the
\* native timer was not killed)
LTimerEvent ==
    /\ CanDispatch /\ rel["message_hwnd"] = 0 /\ "Timer" \in held
    /\ lev' = Event(IF UpgradeLoop(elRefs) /\ "registry" \in timRefs
                       /\ taskRefs # {}
                    THEN "handler" ELSE "silent", 0)
    /\ UNCHANGED <<held, made, elRefs, taskRefs, winRefs, timRefs, dpc, rel,
                   threads, vpc, pending, halt, vq, proc>>
    /\ UNCHANGED <<mvars, tvars, ovars>>

\* the refresh thread of d tests halt at the top of its loop
VCheck(d) ==
    /\ vpc[d] = "check"
    /\ vpc' = [vpc EXCEPT ![d] = IF halt[d] THEN "exit" ELSE "wait"]
    /\ UNCHANGED <<held, made, elRefs, taskRefs, winRefs, timRefs, dpc, rel,
                   threads, pending, halt, vq, proc, lev>>
    /\ UNCHANGED <<mvars, tvars, ovars>>

\* WaitForVBlank fails: the thread returns
VFail(d) ==
    /\ vpc[d] = "wait"
    /\ vpc' = [vpc EXCEPT ![d] = "exit"]
    /\ UNCHANGED <<held, made, elRefs, taskRefs, winRefs, timRefs, dpc, rel,
                   threads, pending, halt, vq, proc, lev>>
    /\ UNCHANGED <<mvars, tvars, ovars>>

ShouldPost_Always(was_pending) == TRUE

\* a vblank message is posted only if the previous one was acknowledged
ShouldPost(was_pending) == ~was_pending

\* WaitForVBlank returns: was_pending = pending.swap(true)
VTick(d) ==
    /\ vpc[d] = "wait"
    /\ pending' = [pending EXCEPT ![d] = TRUE]
    /\ vpc' = [vpc EXCEPT ![d] = IF ShouldPost(pending[d]) THEN "post"
                                 ELSE "check"]
    /\ lev' = Event(IF ShouldPost(pending[d]) THEN "swapped" ELSE "dropped", d)
    /\ UNCHANGED <<held, made, elRefs, taskRefs, winRefs, timRefs, dpc, rel,
                   threads, halt, vq, proc>>
    /\ UNCHANGED <<mvars, tvars, ovars>>

\* PostMessageW(message_hwnd, WM_USER_VBLANK); it fails once the message
\* window was destroyed
VPost(d) ==
    /\ vpc[d] = "post"
    /\ vq[d] < MaxPosted
    /\ vpc' = [vpc EXCEPT ![d] = "check"]
    /\ vq' = [vq EXCEPT ![d] = IF rel["message_hwnd"] = 0 THEN @ + 1 ELSE @]
    /\ UNCHANGED <<held, made, elRefs, taskRefs, winRefs, timRefs, dpc, rel,
                   threads, pending, halt, proc, lev>>
    /\ UNCHANGED <<mvars, tvars, ovars>>

\* message_wnd_proc takes a WM_USER_VBLANK for d: it upgrades the Weak kept in
\* GWLP_USERDATA and holds the Rc until it returns
message_wnd_proc(d) ==
    /\ CanDispatch /\ vq[d] > 0
    /\ vq' = [vq EXCEPT ![d] = @ - 1]
    /\ IF UpgradeLoop(elRefs)
       THEN /\ elRefs' = elRefs \cup {"wndproc"}
            /\ proc' = [pc |-> "frame", d |-> d]
            /\ lev' = lev
       ELSE /\ lev' = Event("DefWindowProc", d)
            /\ UNCHANGED <<elRefs, proc>>
    /\ UNCHANGED <<held, made, taskRefs, winRefs, timRefs, dpc, rel, threads,
                   vpc, pending, halt>>
    /\ UNCHANGED <<mvars, tvars, ovars>>

\* handle_vblank, the loop over the windows: a registered window on the
\* monitor gets WindowEvent::Frame; the handler runs if its Task is alive
handle_vblank(on) ==
    /\ proc.pc = "frame"
    /\ IF on /\ "registry" \in winRefs /\ taskRefs # {}
       THEN /\ proc' = [proc EXCEPT !.pc = "handler"]
            /\ winRefs' = winRefs \cup {"dispatch"}
            /\ taskRefs' = taskRefs \cup {"dispatch"}
            /\ lev' = Event("handler", proc.d)
       ELSE /\ proc' = [proc EXCEPT !.pc = "ack"]
            /\ lev' = Event("silent", proc.d)
            /\ UNCHANGED <<winRefs, taskRefs>>
    /\ UNCHANGED <<held, made, elRefs, timRefs, dpc, rel, threads, vpc,
                   pending, halt, vq>>
    /\ UNCHANGED <<mvars, tvars, ovars>>

\* the Frame handler returns: the clones taken for the dispatch are dropped
HandlerReturn ==
    /\ proc.pc = "handler"
    /\ proc' = [proc EXCEPT !.pc = "ack"]
    /\ Release(elRefs, taskRefs \ {"dispatch"}, winRefs \ {"dispatch"},
               timRefs)
    /\ UNCHANGED <<held, made, rel, threads, vpc, pending, halt, vq, lev>>
    /\ UNCHANGED <<mvars, tvars, ovars>>

\* handle_vblank, the acknowledgement pending.store(false), and the end of
\* message_wnd_proc, which drops its Rc<EventLoopState>
VblankAck ==
    /\ proc.pc = "ack"
    /\ pending' = [pending EXCEPT
                     ![proc.d] = IF proc.d \in threads THEN FALSE ELSE @]
    /\ proc' = [pc |-> "idle", d |-> 0]
    /\ Release(elRefs \ {"wndproc"}, taskRefs, winRefs, timRefs)
    /\ UNCHANGED <<held, made, rel, threads, vpc, halt, vq, lev>>
    /\ UNCHANGED <<mvars, tvars, ovars>>

\* Drop for EventLoopState, first statement
unregister_class ==
    /\ dpc = "unregister_class"
    /\ rel' = [rel EXCEPT !["window_class"] = @ + 1]
    /\ dpc' = "join_all"
    /\ UNCHANGED <<held, made, elRefs, taskRefs, winRefs, timRefs, threads,
                   vpc, pending, halt, vq, proc, lev>>
    /\ UNCHANGED <<mvars, tvars, ovars>>

\* VsyncThreads::join_all, first loop: halt is set for every thread
join_all ==
    /\ dpc = "join_all"
    /\ halt' = [d \in Displays |-> IF d \in threads THEN TRUE ELSE halt[d]]
    /\ dpc' = "join"
    /\ UNCHANGED <<held, made, elRefs, taskRefs, winRefs, timRefs, rel,
                   threads, vpc, pending, vq, proc, lev>>
    /\ UNCHANGED <<mvars, tvars, ovars>>

\* VsyncThreads::join_all, second loop: the map is taken and every thread is
\* joined, which blocks until the thread has returned
Join ==
    /\ dpc = "join"
    /\ \A d \in threads : vpc[d] = "exit"
    /\ threads' = {}
    /\ dpc' = "DestroyWindow"
    /\ UNCHANGED <<held, made, elRefs, taskRefs, winRefs, timRefs, rel, vpc,
                   pending, halt, vq, proc, lev>>
    /\ UNCHANGED <<mvars, tvars, ovars>>

\* DestroyWindow(message_hwnd): the messages still queued for the window are
\* gone; WM_DESTROY reaches message_wnd_proc, where the upgrade fails
DestroyMessageWindow ==
    /\ dpc = "DestroyWindow"
    /\ rel' = [rel EXCEPT !["message_hwnd"] = @ + 1]
    /\ vq' = [d \in Displays |-> 0]
    /\ lev' = Event("DefWindowProc", 0)
    /\ dpc' = "unregister_message_class"
    /\ UNCHANGED <<held, made, elRefs, taskRefs, winRefs, timRefs, threads,
                   vpc, pending, halt, proc>>
    /\ UNCHANGED <<mvars, tvars, ovars>>

unregister_message_class ==
    /\ dpc = "unregister_message_class"
    /\ rel' = [rel EXCEPT !["message_class"] = @ + 1]
    /\ dpc' = "dead"
    /\ UNCHANGED <<held, made, elRefs, taskRefs, winRefs, timRefs, threads,
                   vpc, pending, halt, vq, proc, lev>>
    /\ UNCHANGED <<mvars, tvars, ovars>>

LifeInit == Init /\ backend = "win32"

LifeNext ==
    \/ LSpawn
    \/ LOpen
    \/ LRepeat
    \/ \E h \in Handles : DropHandle(h)
    \/ LWindowEvent
    \/ LTimerEvent
    \/ \E d \in Displays : VCheck(d)
    \/ \E d \in Displays : VFail(d)
    \/ \E d \in Displays : VTick(d)
    \/ \E d \in Displays : VPost(d)
    \/ \E d \in Displays : message_wnd_proc(d)
    \/ \E on \in BOOLEAN : handle_vblank(on)
    \/ HandlerReturn
    \/ VblankAck
    \/ unregister_class
    \/ join_all
    \/ Join
    \/ DestroyMessageWindow
    \/ unregister_message_class

LifeSpec == LifeInit /\ [][LifeNext]_vars

\* ==== windows of the win32 backend =============================================
\* A WindowState is reference counted; a strong reference is named by its
\* holder: "Window" (the application's handle), "registry" (the entry of
\* EventLoopState.windows), "userdata" (the pointer stored in GWLP_USERDATA)
\* and "callback" (the clone wnd_proc holds while a handler runs).
WinEvents == {"Mouse", "Wheel", "Close"}
Responses == {"Capture", "Ignore"}

WinOutcome(op, w, ran, resp, def, res) ==
    [op |-> op, w |-> w, ran |-> ran, resp |-> resp, def |-> def,
     res |-> res]

\* WindowState::handle_event gets past upgrade() and try_borrow_mut()
TaskAvailable == wtask = "alive" /\ cur.pc = "idle"

WmDestroy_KeepPointer(ws) ==
    [ws EXCEPT !.refs = @ \ {"userdata"}, !.udrel = @ + 1]

\* the WM_DESTROY arm: clear the context pointer, release its reference
WmDestroy(ws) ==
    [ws EXCEPT !.ud = FALSE, !.refs = @ \ {"userdata"}, !.udrel = @ + 1]

\* wnd_proc for the two messages DestroyWindow sends.  A null context
\* pointer goes to DefWindowProcW; otherwise the WindowState is cloned from
\* the pointer, which reads freed memory when the reference behind the
\* pointer is gone.
DestroyProc(ws, msg) ==
    IF ~ws.ud THEN ws
    ELSE LET s == [ws EXCEPT !.uaf = @ \/ "userdata" \notin ws.refs]
         IN  IF msg = "WM_DESTROY" THEN WmDestroy(s) ELSE s

\* DestroyWindow: fails on a handle that no longer exists; otherwise
\* WM_DESTROY and WM_NCDESTROY are sent before the window is gone
DestroyWindow(ws) ==
    IF ~ws.native THEN ws
    ELSE [DestroyProc(DestroyProc(ws, "WM_DESTROY"), "WM_NCDESTROY")
             EXCEPT !.native = FALSE]

\* WindowState::close
WindowState_close(ws) ==
    IF ws.hwnd
    THEN DestroyWindow([ws EXCEPT !.hwnd = FALSE, !.refs = @ \ {"registry"}])
    ELSE ws

\* WindowState::as_raw
WindowState_as_raw(ws) == IF ws.hwnd THEN "Ok" ELSE "WindowClosed"

DefaultProceeds_Unhandled(ev, resp) == resp # "Capture"

DefaultProceeds_Ignore(ev, resp) == ev # "Close" /\ resp = "Ignore"

\* wnd_proc falls through to DefWindowProcW.  resp is the handler's
\* Response, or "None" when handle_event returned None.
DefaultProceeds(ev, resp) ==
    IF ev = "Close" THEN FALSE ELSE resp # "Capture"

\* the rest of wnd_proc once handle_event has returned resp: DefWindowProcW
\* destroys the window on WM_CLOSE
Finish(ws, ev, resp) ==
    IF DefaultProceeds(ev, resp) /\ ev = "Close" THEN DestroyWindow(ws)
    ELSE ws

WSpawn ==
    /\ wtask = "none"
    /\ cur.pc = "idle"
    /\ wtask' = "alive"
    /\ wlast' = NoWin
    /\ UNCHANGED <<wins, cur, tick>>
    /\ UNCHANGED <<mvars, tvars, lvars, xvars, pvars, evars>>

WDropTask ==
    /\ wtask = "alive"
    /\ cur.pc = "idle"
    /\ tick.d = 0
    /\ wtask' = "dropped"
    /\ wlast' = NoWin
    /\ UNCHANGED <<wins, cur, tick>>
    /\ UNCHANGED <<mvars, tvars, lvars, xvars, pvars, evars>>

\* TaskHandle::with: the closure runs with the Task borrowed
WWith ==
    /\ TaskAvailable
    /\ tick.d = 0
    /\ cur' = [pc |-> "with", w |-> 0, ev |-> ""]
    /\ wlast' = NoWin
    /\ UNCHANGED <<wtask, wins, tick>>
    /\ UNCHANGED <<mvars, tvars, lvars, xvars, pvars, evars>>

\* Window::open, called with the Context of a closure or handler, on
\* monitor d, as a child of a foreign window (options.parent) or not
WOpen(w, d, c) ==
    /\ cur.pc \in {"with", "handler"}
    /\ ~wins[w].made
    /\ wins' = [wins EXCEPT ![w] =
                  [WindowNew EXCEPT !.made = TRUE, !.handle = TRUE,
                      !.hwnd = TRUE, !.native = TRUE, !.child = c,
                      !.ud = TRUE,
                      !.refs = {"Window", "registry", "userdata"},
                      !.mon = d, !.mon0 = d]]
    /\ wlast' = NoWin
    /\ UNCHANGED <<wtask, cur, tick>>
    /\ UNCHANGED <<mvars, tvars, lvars, xvars, pvars, evars>>

\* Drop for Window: close(), then the handle's reference goes
WDropWindow(w) ==
    /\ wins[w].handle
    /\ wins' = [wins EXCEPT ![w] =
                  [WindowState_close(@) EXCEPT !.handle = FALSE,
                                               !.refs = @ \ {"Window"}]]
    /\ tick' = IF tick.d = 0 THEN tick
               ELSE [tick EXCEPT !.closed = @ \union {w}]
    /\ wlast' = NoWin
    /\ UNCHANGED <<wtask, cur>>
    /\ UNCHANGED <<mvars, tvars, lvars, xvars, pvars, evars>>

\* the host destroys the parent of a child window: the system destroys the
\* child with it
WParentDestroyed(w) ==
    /\ cur.pc = "idle"
    /\ tick.d = 0
    /\ wins[w].native
    /\ wins[w].child
    /\ wins' = [wins EXCEPT ![w] = DestroyWindow(@)]
    /\ wlast' = NoWin
    /\ UNCHANGED <<wtask, cur, tick>>
    /\ UNCHANGED <<mvars, tvars, lvars, xvars, pvars, evars>>

\* Window::as_raw
WAsRaw(w) ==
    /\ wins[w].handle
    /\ wlast' = WinOutcome("as_raw", w, FALSE, "", FALSE,
                           WindowState_as_raw(wins[w]))
    /\ UNCHANGED <<wtask, wins, cur, tick>>
    /\ UNCHANGED <<mvars, tvars, lvars, xvars, pvars, evars>>

\* wnd_proc for a mouse button, wheel or close message of window w, up to
\* the handler's entry; when handle_event returns None it runs to its end
WDeliver(w, ev) ==
    /\ wins[w].native
    /\ tick.d = 0
    /\ IF ~wins[w].ud
       THEN /\ wlast' = WinOutcome(ev, w, FALSE, "None", TRUE, "")
            /\ UNCHANGED <<wins, cur>>
       ELSE IF TaskAvailable
       THEN /\ cur' = [pc |-> "handler", w |-> w, ev |-> ev]
            /\ wins' = [wins EXCEPT ![w].refs = @ \union {"callback"}]
            /\ wlast' = NoWin
       ELSE /\ wins' = [wins EXCEPT ![w] = Finish(@, ev, "None")]
            /\ wlast' = WinOutcome(ev, w, FALSE, "None",
                                   DefaultProceeds(ev, "None"), "")
            /\ UNCHANGED cur
    /\ UNCHANGED <<wtask, tick>>
    /\ UNCHANGED <<mvars, tvars, lvars, xvars, pvars, evars>>

\* the closure or handler returns; a handler returns Response r, and
\* wnd_proc drops its clone of the WindowState
WReturn(r) ==
    /\ cur.pc # "idle"
    /\ cur' = Idle
    /\ IF cur.pc = "with"
       THEN /\ r = "Ignore"
            /\ wlast' = NoWin
            /\ UNCHANGED wins
       ELSE IF cur.ev = "Frame"
       THEN /\ wins' = [wins EXCEPT ![cur.w].refs = @ \ {"callback"}]
            /\ r = "Ignore"
            /\ wlast' = NoWin
       ELSE /\ wins' = [wins EXCEPT ![cur.w] =
                          [Finish(@, cur.ev, r)
                              EXCEPT !.refs = @ \ {"callback"}]]
            /\ wlast' = WinOutcome(cur.ev, cur.w, TRUE, r,
                                   DefaultProceeds(cur.ev, r), "")
    /\ UNCHANGED <<wtask, tick>>
    /\ UNCHANGED <<mvars, tvars, lvars, xvars, pvars, evars>>

WinInit == Init /\ backend = "win32"

WinNext ==
    \/ WSpawn
    \/ WDropTask
    \/ WWith
    \/ \E w \in Hwnds, d \in Monitors, c \in BOOLEAN : WOpen(w, d, c)
    \/ \E w \in Hwnds : WDropWindow(w)
    \/ \E w \in Hwnds : WParentDestroyed(w)
    \/ \E w \in Hwnds : WAsRaw(w)
    \/ \E w \in Hwnds, ev \in WinEvents : WDeliver(w, ev)
    \/ \E r \in Responses : WReturn(r)

WinSpec == WinInit /\ [][WinNext]_vars

\* ---- refresh ticks over the window registry --------------------------------
MonitorFromWindow_AtCreation(ws) == ws.mon0

\* MonitorFromWindow(hwnd, MONITOR_DEFAULTTONEAREST)
MonitorFromWindow(ws) == ws.mon

RegistryGet_Snapshot(ws) == ws.made

\* event_loop_state.windows.borrow().get(&hwnd) is Some
RegistryGet(ws) == "registry" \in ws.refs

\* the user moves window w to monitor d
WMove(w, d) ==
    /\ cur.pc = "idle"
    /\ tick.d = 0
    /\ wins[w].native
    /\ wins[w].mon # d
    /\ wins' = [wins EXCEPT ![w].mon = d]
    /\ wlast' = NoWin
    /\ UNCHANGED <<wtask, cur, tick>>
    /\ UNCHANGED <<mvars, tvars, lvars, xvars, pvars, evars>>

\* handle_vblank(monitor d) starts: the keys of the registry are copied
WTickBegin(d) ==
    /\ cur.pc = "idle"
    /\ tick.d = 0
    /\ tick' = [NoTick EXCEPT !.d = d,
                   !.todo = {w \in Hwnds : "registry" \in wins[w].refs}]
    /\ wlast' = WinOutcome("tick_begin", 0, FALSE, "", FALSE, "")
    /\ UNCHANGED <<wtask, wins, cur>>
    /\ UNCHANGED <<mvars, tvars, lvars, xvars, pvars, evars>>

\* one iteration of the loop of handle_vblank, for the copied key w, up to
\* the Frame handler's entry
WTickStep(w) ==
    /\ cur.pc = "idle"
    /\ tick.d # 0
    /\ w \in tick.todo
    /\ LET hit == /\ MonitorFromWindow(wins[w]) = tick.d
                  /\ RegistryGet(wins[w])
       IN  /\ tick' = [tick EXCEPT !.todo = @ \ {w},
                          !.att[w] = IF hit THEN @ + 1 ELSE @]
           /\ IF hit /\ TaskAvailable
              THEN /\ cur' = [pc |-> "handler", w |-> w, ev |-> "Frame"]
                   /\ wins' = [wins EXCEPT ![w].refs = @ \union {"callback"}]
              ELSE UNCHANGED <<wins, cur>>
           /\ wlast' = WinOutcome("tick_step", w, hit /\ TaskAvailable, "",
                                  FALSE, IF hit THEN "attempt" ELSE "skip")
    /\ UNCHANGED wtask
    /\ UNCHANGED <<mvars, tvars, lvars, xvars, pvars, evars>>

\* the loop of handle_vblank is over
WTickEnd ==
    /\ cur.pc = "idle"
    /\ tick.d # 0
    /\ tick.todo = {}
    /\ tick' = NoTick
    /\ wlast' = NoWin
    /\ UNCHANGED <<wtask, wins, cur>>
    /\ UNCHANGED <<mvars, tvars, lvars, xvars, pvars, evars>>

TickNext ==
    \/ WSpawn
    \/ WDropTask
    \/ WWith
    \/ \E w \in Hwnds, d \in Monitors : WOpen(w, d, FALSE)
    \/ \E w \in Hwnds : WDropWindow(w)
    \/ \E w \in Hwnds, d \in Monitors : WMove(w, d)
    \/ \E d \in Monitors : WTickBegin(d)
    \/ \E w \in Hwnds : WTickStep(w)
    \/ WTickEnd
    \/ \E r \in Responses : WReturn(r)

TickSpec == WinInit /\ [][TickNext]_vars

\* ==== Expose events of the x11 backend ==========================================
\* all sequences over S of length 1..n
RECURSIVE SeqsUpTo(_, _)
SeqsUpTo(S, n) ==
    IF n = 0 THEN {}
    ELSE {<<x>> : x \in S}
         \union SeqsUpTo(S, n - 1)
         \union {Append(q, x) : q \in SeqsUpTo(S, n - 1), x \in S}

\* the Expose events of one batch for window w: event i carries the number
\* of events of the batch still to follow
BatchEvents(w, b) ==
    [i \in 1..Len(b) |-> [w |-> w, rect |-> b[i], count |-> Len(b) - i]]

\* rect_physical.scale(self.scale.recip()), with scale = Xft.dpi / 96: the
\* coordinate as a fraction
ScaleRect(r) == [num |-> r * 96, den |-> XftDpi]

ScaleAll(b) == [i \in 1..Len(b) |-> ScaleRect(b[i])]

Taken_Clone(acc) == acc

\* what expose_rects.take() leaves behind
Taken(acc) == <<>>

\* a window is opened under the Task
XOpen(w) ==
    /\ ~xopen[w]
    /\ xsent[w] = <<>>
    /\ xopen' = [xopen EXCEPT ![w] = TRUE]
    /\ xlast' = NoExpose
    /\ UNCHANGED <<xacc, xstream, xsent, xbusy>>
    /\ UNCHANGED <<mvars, tvars, lvars, wvars, pvars, evars>>

\* the window is closed: its entry leaves the registry
XClose(w) ==
    /\ xopen[w]
    /\ xopen' = [xopen EXCEPT ![w] = FALSE]
    /\ xacc' = [xacc EXCEPT ![w] = <<>>]
    /\ xlast' = NoExpose
    /\ UNCHANGED <<xstream, xsent, xbusy>>
    /\ UNCHANGED <<mvars, tvars, lvars, wvars, pvars, evars>>

\* the server reports damage of window w: one batch of Expose events
XDamage(w, b) ==
    /\ xopen[w]
    /\ Len(xstream) + Len(b) <= MaxStream
    /\ xstream' = xstream \o BatchEvents(w, b)
    /\ xsent' = [xsent EXCEPT ![w] = Append(@, b)]
    /\ xlast' = NoExpose
    /\ UNCHANGED <<xopen, xacc, xbusy>>
    /\ UNCHANGED <<mvars, tvars, lvars, wvars, pvars, evars>>

\* the Task becomes unavailable (borrowed by with()) or available again
XBorrow ==
    /\ xbusy' = ~xbusy
    /\ xlast' = NoExpose
    /\ UNCHANGED <<xopen, xacc, xstream, xsent>>
    /\ UNCHANGED <<mvars, tvars, lvars, wvars, pvars, evars>>

\* drain_events polls one Expose event
XExpose ==
    /\ xstream # <<>>
    /\ LET e == Head(xstream)
           acc == Append(xacc[e.w], ScaleRect(e.rect))
           want == IF xsent[e.w] = <<>> THEN <<>>
                   ELSE ScaleAll(Head(xsent[e.w]))
       IN  /\ xstream' = Tail(xstream)
           /\ xsent' = IF e.count = 0 /\ xsent[e.w] # <<>>
                       THEN [xsent EXCEPT ![e.w] = Tail(@)]
                       ELSE xsent
           /\ IF ~xopen[e.w]
              THEN /\ xlast' = [NoExpose EXCEPT !.op = "skip", !.w = e.w,
                                                !.count = e.count]
                   /\ UNCHANGED xacc
              ELSE IF e.count # 0
              THEN /\ xacc' = [xacc EXCEPT ![e.w] = acc]
                   /\ xlast' = [NoExpose EXCEPT !.op = "push", !.w = e.w,
                                                !.count = e.count]
              ELSE /\ xacc' = [xacc EXCEPT ![e.w] = Taken(acc)]
                   /\ xlast' = [op |-> "Expose", w |-> e.w, count |-> 0,
                                len |-> Len(acc), exact |-> acc = want,
                                ran |-> ~xbusy]
    /\ UNCHANGED <<xopen, xbusy>>
    /\ UNCHANGED <<mvars, tvars, lvars, wvars, pvars, evars>>

ExposeInit == Init /\ backend = "x11"

ExposeNext ==
    \/ \E w \in Hwnds : XOpen(w)
    \/ \E w \in Hwnds : XClose(w)
    \/ \E w \in Hwnds, b \in SeqsUpTo(Rects, MaxBatch) : XDamage(w, b)
    \/ XBorrow
    \/ XExpose

ExposeSpec == ExposeInit /\ [][ExposeNext]_vars

\* ==== presenting a bitmap on the cocoa backend ==================================
Dims == 0..MaxDim

Min(a, b) == IF a < b THEN a ELSE b

\* the pixels of a caller's bitmap of the given size, row after row; the
\* pixel at index i has the value i (Bitmap::new checks the length)
BitmapData(width, height) == [i \in 1..(width * height) |-> i]

copy_width_Bitmap(bitmap_width, width) == bitmap_width

\* let copy_width = bitmap.width().min(width)
copy_width(bitmap_width, width) == Min(bitmap_width, width)

\* both slices of one row are within their arrays
RowInBounds(buf, data, row, bw, sw, cw) ==
    /\ row * bw + cw <= Len(data)
    /\ row * sw + cw <= Len(buf)

\* dst.copy_from_slice(src) for one row
CopyRow(buf, data, row, bw, sw, cw) ==
    [i \in 1..Len(buf) |->
        IF i - 1 >= row * sw /\ i - 1 < row * sw + cw
        THEN data[row * bw + (i - 1 - row * sw) + 1]
        ELSE buf[i]]

\* for row in row..copy_height; a slice out of bounds panics
RECURSIVE CopyRows(_, _, _, _, _, _, _)
CopyRows(buf, data, row, ch, bw, sw, cw) ==
    IF row >= ch THEN [buf |-> buf, ok |-> TRUE]
    ELSE IF ~RowInBounds(buf, data, row, bw, sw, cw)
    THEN [buf |-> buf, ok |-> FALSE]
    ELSE CopyRows(CopyRow(buf, data, row, bw, sw, cw), data, row + 1, ch,
                  bw, sw, cw)

\* WindowState::open allocates the surface, zero filled
POpen(w, h) ==
    /\ ~psurf.some
    /\ psurf' = [some |-> TRUE, width |-> w, height |-> h,
                 buf |-> [i \in 1..(w * h) |-> 0],
                 allocs |-> 1]
    /\ plast' = NoPresent
    /\ UNCHANGED <<mvars, tvars, lvars, wvars, xvars, evars>>

\* the window is dropped, and its surface with it
PClose ==
    /\ psurf.some
    /\ psurf' = NoSurface
    /\ plast' = NoPresent
    /\ UNCHANGED <<mvars, tvars, lvars, wvars, xvars, evars>>

\* WindowState::present with a bitmap of bw x bh pixels; locked is whether
\* the lock of the IOSurface succeeds
Present(bw, bh, locked) ==
    /\ LET cw == copy_width(bw, psurf.width)
           ch == Min(bh, psurf.height)
           r == CopyRows(psurf.buf, BitmapData(bw, bh), 0, ch, bw,
                         psurf.width, cw)
       IN  IF psurf.some /\ locked
           THEN /\ psurf' = [psurf EXCEPT !.buf = r.buf]
                /\ plast' = [op |-> "present", width |-> bw, height |-> bh,
                             before |-> psurf.buf, locked |-> TRUE,
                             ok |-> r.ok]
           ELSE /\ psurf' = psurf
                /\ plast' = [op |-> "present", width |-> bw, height |-> bh,
                             before |-> psurf.buf, locked |-> FALSE,
                             ok |-> TRUE]
    /\ UNCHANGED <<mvars, tvars, lvars, wvars, xvars, evars>>

PresentInit == Init /\ backend = "cocoa"

PresentNext ==
    \/ \E w \in Dims, h \in Dims : POpen(w, h)
    \/ PClose
    \/ \E bw \in Dims, bh \in Dims, locked \in BOOLEAN : Present(bw, bh, locked)

PresentSpec == PresentInit /\ [][PresentNext]_vars

\* ==== mouse buttons of the win32 backend ========================================
ShouldCapture_Second(c) == c = 2

\* if state.mouse_down_count.get() == 1 { SetCapture(hwnd) }
ShouldCapture(c) == c = 1

\* if state.mouse_down_count.get() == 0 { ReleaseCapture() }
ShouldRelease(c) == c = 0

\* the system sends mouse messages to the window holding the capture, if
\* there is one
Routed(w) == \A v \in Hwnds : (cap[v] /\ wins[v].native) => v = w

\* wnd_proc for a button-down (down) or button-up message of window w,
\* whichever button it is for; the event's handler runs to its end
WButton(w, down) ==
    /\ wins[w].native
    /\ Routed(w)
    /\ downs[w] + ups[w] < MaxClicks
    /\ LET c == IF down THEN mdc[w] + 1 ELSE mdc[w] - 1
       IN  /\ mdc' = [mdc EXCEPT ![w] = c]
           /\ cap' = IF down /\ ShouldCapture(c)
                     THEN [cap EXCEPT ![w] = TRUE]
                     ELSE IF ~down /\ ShouldRelease(c)
                     THEN [v \in Hwnds |-> FALSE]
                     ELSE cap
    /\ downs' = IF down THEN [downs EXCEPT ![w] = @ + 1] ELSE downs
    /\ ups' = IF down THEN ups ELSE [ups EXCEPT ![w] = @ + 1]
    /\ blast' = [w |-> w, down |-> down, ran |-> TaskAvailable]
    /\ UNCHANGED <<mvars, tvars, lvars, wvars, xvars, pvars, ptvars, rfvars,
                   nvars>>

MouseNext ==
    \/ WSpawn
    \/ WDropTask
    \/ WWith
    \/ \E w \in Hwnds : WOpen(w, 1, FALSE)
    \/ \E r \in Responses : WReturn(r)
    \/ \E w \in Hwnds, down \in BOOLEAN : WButton(w, down)

MouseSpec == WinInit /\ [][MouseNext]_vars

\* ---------------------------------------------------------------------
\* Pointer positions (x11 drain_events, win32 wnd_proc).
\* A coordinate is an exact fraction num / den.

MaxCoord == 4

Coords == 0..MaxCoord

\* The dpi values a win32 window can report: 96 is scale 1.0
Dpis == {96, 192}

\* `event_x as f64`: the native coordinate itself
PointOf(p) == [num |-> p, den |-> 1]

\* point_physical.scale(scale.recip()) with scale = dpi / 96
ScalePoint(p, dpi) == [num |-> p * 96, den |-> dpi]

\* x11 MotionNotify: the handler receives Point {event_x, event_y}
XMotionNotify(px, py) ==
    /\ backend = "x11"
    /\ moved' = [kind |-> "Motion", px |-> px, py |-> py, dpi |-> XftDpi,
                 x |-> PointOf(px), y |-> PointOf(py)]
    /\ UNCHANGED <<mvars, tvars, lvars, wvars, xvars, pvars, bvars, rfvars,
                   nvars>>

\* x11 EnterNotify: MouseEnter, then a MouseMove built the same way
XEnterNotify(px, py) ==
    /\ backend = "x11"
    /\ moved' = [kind |-> "Enter", px |-> px, py |-> py, dpi |-> XftDpi,
                 x |-> PointOf(px), y |-> PointOf(py)]
    /\ UNCHANGED <<mvars, tvars, lvars, wvars, xvars, pvars, bvars, rfvars,
                   nvars>>

\* win32 WM_MOUSEMOVE: the physical point scaled by scale().recip()
WMouseMove(px, py, dpi) ==
    /\ backend = "win32"
    /\ moved' = [kind |-> "Motion", px |-> px, py |-> py, dpi |-> dpi,
                 x |-> ScalePoint(px, dpi), y |-> ScalePoint(py, dpi)]
    /\ UNCHANGED <<mvars, tvars, lvars, wvars, xvars, pvars, bvars, rfvars,
                   nvars>>

PointerNext ==
    \/ \E px \in Coords, py \in Coords : XMotionNotify(px, py)
    \/ \E px \in Coords, py \in Coords : XEnterNotify(px, py)
    \/ \E px \in Coords, py \in Coords, dpi \in Dpis : WMouseMove(px, py, dpi)

PointerSpec == Init /\ [][PointerNext]_vars

\* ---------------------------------------------------------------------
\* Refresh delivery on win32 (vsync.rs, message_wnd_proc, run).
\* Every monitor has a refresh thread; a Frame handler is one step whose
\* outcome is an input.

\* what the dispatch of one WM_USER_VBLANK does: no window of the monitor
\* has an available handler, the handler returns, the handler calls exit()
\* and returns, the handler fails
FrameOutcomes == {"silent", "ok", "exit", "fail"}

\* the body of the refresh thread's loop after WaitForVBlank returned:
\* was_pending = pending.swap(true), and a message is posted if ShouldPost
ThreadLoop(m) ==
    /\ backend = "win32" /\ ~aborted
    /\ vpend' = [vpend EXCEPT ![m] = TRUE]
    /\ vposted' = IF ShouldPost(vpend[m]) THEN vposted \cup {m} ELSE vposted
    /\ flast' = [NoRefresh EXCEPT !.op = "tick", !.m = m]
    /\ UNCHANGED <<nfail, mvars, tvars, lvars, wvars, xvars, pvars, bvars,
                   ptvars, nvars>>

\* EventLoopState::run up to the head of its loop: RunGuard::new
RefreshRun ==
    /\ backend = "win32" /\ ~aborted
    /\ GuardAdmits(run_state, running)
    /\ running' = GuardEnter(M0).running
    /\ nfail' = 0
    /\ flast' = [NoRefresh EXCEPT !.op = "enter"]
    /\ UNCHANGED <<vpend, vposted, backend, stack, handle, borrowed, winTask,
                   run_state, panic, quit, events, dirty, aborted, last>>
    /\ UNCHANGED <<tvars, lvars, wvars, xvars, pvars, bvars, ptvars, nvars>>

\* handle_vblank reaches pending.store(false) unless a handler unwound
\* through its loop
pending_store(out) == out # "fail"

\* a posted WM_USER_VBLANK of monitor m is retrieved (by the loop of run(),
\* or by a foreign loop while run() is not in progress) and dispatched to
\* message_wnd_proc: handle_vblank inside catch_unwind, then propagate_panic
\* if it unwound
DispatchVblank(m, out) ==
    /\ backend = "win32" /\ ~aborted
    /\ m \in vposted
    /\ vposted' = vposted \ {m}
    /\ vpend' = IF pending_store(out) THEN [vpend EXCEPT ![m] = FALSE]
                ELSE vpend
    /\ LET m1 == IF out = "fail" THEN propagate_panic(M0, nfail + 1)
                 ELSE IF out = "exit" /\ running THEN [M0 EXCEPT !.quit = TRUE]
                 ELSE M0
       IN  /\ panic' = m1.panic
           /\ quit' = m1.quit
           /\ aborted' = m1.aborted
    /\ nfail' = IF out = "fail" THEN nfail + 1 ELSE nfail
    /\ flast' = [NoRefresh EXCEPT !.op = "vblank", !.m = m, !.out = out,
                                  !.nfail = nfail']
    /\ UNCHANGED <<backend, stack, handle, borrowed, winTask, run_state,
                   running, events, dirty, last>>
    /\ UNCHANGED <<tvars, lvars, wvars, xvars, pvars, bvars, ptvars, nvars>>

\* GetMessageW retrieves WM_QUIT, which is generated once the posted queue
\* is empty: the loop of run() breaks, the panic cell is taken and re-raised
\* if occupied, the RunGuard is dropped
RefreshReturn ==
    /\ backend = "win32" /\ ~aborted
    /\ running /\ quit /\ vposted = {}
    /\ panic' = 0
    /\ quit' = FALSE
    /\ running' = GuardDrop(M0).running
    /\ nfail' = 0
    /\ flast' = [NoRefresh EXCEPT !.op = "run", !.nfail = nfail,
                                  !.raised = panic]
    /\ UNCHANGED <<vpend, vposted, backend, stack, handle, borrowed, winTask,
                   run_state, events, dirty, aborted, last>>
    /\ UNCHANGED <<tvars, lvars, wvars, xvars, pvars, bvars, ptvars, nvars>>

RefreshNext ==
    \/ \E m \in Monitors : ThreadLoop(m)
    \/ RefreshRun
    \/ \E m \in Monitors, out \in FrameOutcomes : DispatchVblank(m, out)
    \/ RefreshReturn

RefreshSpec == WinInit /\ [][RefreshNext]_vars

\* ---------------------------------------------------------------------
\* The timeout of the blocking wait (x11 run).

\* high and low halves of the millisecond counts tried: around 0, around
\* 2^31 and around 2^32 milliseconds
His == {0, 1, 2, Half \div 2 - 1, Half \div 2, Half \div 2 + 1, Half - 1,
        Half, Half + 1}

Los == {0, 1, Half \div 2, Half - 1}

\* the clock readings tried
Nows == {Millis(0, 0), Millis(0, 1), Millis(1, 0)}

\* a <= b for millisecond counts
MillisLeq(a, b) == a.hi < b.hi \/ (a.hi = b.hi /\ a.lo <= b.lo)

\* a - b for millisecond counts, b <= a
MillisSub(a, b) ==
    IF a.lo >= b.lo THEN Millis(a.hi - b.hi, a.lo - b.lo)
    ELSE Millis(a.hi - b.hi - 1, a.lo + Half - b.lo)

\* next_time.saturating_duration_since(Instant::now()); as_millis() drops
\* the part below a millisecond, times here are whole milliseconds
saturating_duration_since(next, tnow) ==
    IF MillisLeq(tnow, next) THEN MillisSub(next, tnow) ELSE Millis(0, 0)

\* `as i32` of the u128 millisecond count: the low 32 bits, read as two's
\* complement
AsI32(ms) ==
    LET h == ms.hi % Half
    IN [neg |-> h >= Half \div 2, bits |-> Millis(h, ms.lo)]

\* the x11 run() computes the timeout and calls libc::poll: the remaining
\* time to the earliest queue entry, or -1 if the queue is empty
RunTimeout(queued, next, tnow) ==
    /\ backend = "x11"
    /\ ~queued => (next = Millis(0, 0) /\ tnow = Millis(0, 0))
    /\ LET rem == saturating_duration_since(next, tnow)
           t == IF queued THEN AsI32(rem)
                ELSE [neg |-> TRUE, bits |-> Millis(Half - 1, Half - 1)]
       IN twait' = [op |-> "wait", queued |-> queued, next |-> next,
                    tnow |-> tnow, rem |-> IF queued THEN rem ELSE Millis(0, 0),
                    neg |-> t.neg, timeout |-> t.bits]
    /\ UNCHANGED <<created, mvars, tvars, lvars, wvars, xvars, pvars, bvars,
                   ptvars, rfvars>>

WaitNext ==
    \E queued \in BOOLEAN, hi \in His, lo \in Los, tnow \in Nows :
        RunTimeout(queued, Millis(hi, lo), tnow)

WaitSpec == Init /\ [][WaitNext]_vars

\* ---------------------------------------------------------------------
\* Window creation (win32 WindowState::open).

\* f64::round of num / den, for num >= 0
Round(num, den) == (2 * num + den) \div (2 * den)

\* position.scale(scale), one coordinate, rounded `as i32`
Physical(p, dpi) == Round(p * dpi, 96)

\* AdjustWindowRectEx: the rectangle of the window whose client area is
\* rect; a child window has no frame, a top-level window has a border and
\* a caption above the client area
AdjustWindowRectEx(rect, child) ==
    IF child THEN rect
    ELSE [left |-> rect.left - 1, top |-> rect.top - 2]

\* the x and y passed to CreateWindowExW for an explicit position
CreateXY(rect) == [x |-> rect.top, y |-> rect.left]

\* WindowState::open with options.position = Some((px, py)); the size takes
\* no part in x and y
OpenAt(px, py, dpi, child) ==
    /\ backend = "win32"
    /\ LET rect == AdjustWindowRectEx(
                      [left |-> Physical(px, dpi), top |-> Physical(py, dpi)],
                      child)
           xy == CreateXY(rect)
       IN created' = [op |-> "open", positioned |-> TRUE, child |-> child,
                      px |-> px, py |-> py, dpi |-> dpi,
                      x |-> xy.x, y |-> xy.y]
    /\ UNCHANGED <<twait, mvars, tvars, lvars, wvars, xvars, pvars, bvars,
                   ptvars, rfvars>>

CreateNext ==
    \E px \in Coords, py \in Coords, dpi \in Dpis, child \in BOOLEAN :
        OpenAt(px, py, dpi, child)

CreateSpec == Init /\ [][CreateNext]_vars

\* ==== properties ================================================================
IsRunning == IF backend = "x11" THEN run_state = "Running" ELSE running
IsStopped == IF backend = "x11" THEN run_state = "Stopped" ELSE ~running

\* C1: access to a Task is mutually exclusive.  At most one frame (closure of
\* with/try_with, or handler) holds a mutable view of a Task at any time, and
\* the Task's borrow flag is set exactly while such a frame exists; an access
\* attempted meanwhile is turned away without entering its closure or handler.
C1_MutualExclusion ==
    \A t \in Tasks :
        /\ Cardinality(Holders(stack, t)) <= 1
        /\ borrowed[t] <=> Holders(stack, t) # {}

\* a dispatch was dropped, or try_with refused, while the Task was borrowed
C1_Witness ==
    /\ last.res \in {"dropped", "BorrowMutError"}
    /\ \E t \in Tasks : borrowed[t] /\ Cardinality(Holders(stack, t)) = 1

\* C2: run() or poll() called while the loop is Running returns
\* AlreadyRunning, starts no pump and leaves the loop Running.
C2_AlreadyRunning ==
    [][(IsRunning /\ (Run \/ Poll)) =>
          /\ last'.res = "AlreadyRunning"
          /\ stack' = stack
          /\ IsRunning']_vars

\* run() was refused inside a handler that the loop is dispatching
C2_Witness ==
    /\ last.res = "AlreadyRunning"
    /\ IsRunning
    /\ stack # <<>> /\ Top.kind = "handler"
    /\ PumpCount(stack) = 1

\* C3: the reentrancy guard covers the whole run()/poll() call, also after
\* exit() was requested: at most one pump of the loop is ever active.
C3_SinglePump == PumpCount(stack) <= 1

\* C4: whenever run() or poll() returns - normally, with an error of the
\* native event source, or by re-raising a captured failure - the loop is
\* Stopped and the guard is free, so that the next run()/poll() is admitted.
C4_StoppedOnReturn ==
    (IsRet(last) /\ last.res \in {"Ok", "Err", "panic"}) =>
        /\ IsStopped
        /\ GuardAdmits(run_state, running)
        /\ PollPrecheck(run_state)

\* run()/poll() has just returned by re-raising a captured failure
C4_Witness ==
    /\ IsRet(last) /\ last.res = "panic" /\ last.raised # 0
    /\ backend = "win32"
    /\ IsStopped

\* C5: exit() called while no run()/poll() is in progress is a no-op: the
\* loop state is left as it is (Stopped), so a following poll()/run() is
\* admitted.
C5_ExitOutsideIsNoop ==
    [][(Exit /\ PumpCount(stack) = 0) =>
          /\ UNCHANGED <<run_state, running, quit>>
          /\ IsStopped']_vars

\* an exit() request is pending for a run() that has not returned yet
ExitPending ==
    /\ backend = "x11"
    /\ \E i \in DOMAIN stack : stack[i].kind = "run" /\ stack[i].exitReq

\* C6: once a handler has called exit() during run(), no native event is
\* taken from the queue and no blocking wait is entered before that run()
\* returns (socket-based backend).
C6_ExitStopsDispatch ==
    [][ExitPending =>
          /\ Len(events') >= Len(events)
          /\ \A i \in DOMAIN stack' : stack'[i].pc # "wait"]_vars

\* C7: a handler failure while the loop is Running is caught at the native
\* callback boundary and stored, the loop is asked to stop, and the pump
\* during which it happened returns by re-raising a failure, never Ok.
C7_FailureReRaised ==
    /\ (IsRet(last) /\ last.failed # 0) =>
            (last.res = "panic" /\ last.raised # 0)
    /\ backend # "x11" =>
            \A i \in DOMAIN stack :
                (IsPump(stack[i]) /\ stack[i].failed # 0) =>
                    (panic # 0 /\ quit /\ ~aborted)

\* a run() during which a handler failed has re-raised the failure
C7_Witness ==
    /\ backend = "win32"
    /\ last.op = "run" /\ last.failed # 0 /\ last.res = "panic"

\* C8: a callback that fails while no run()/poll() is in progress (loop not
\* Running) aborts the process; the failure is not stored in the panic cell.
C8_AbortWhenNotRunning ==
    [][(/\ backend # "x11"
        /\ ~running
        /\ Fail
        /\ \E i \in DOMAIN stack : stack[i].kind = "handler") =>
          /\ aborted'
          /\ panic' = 0 /\ panic = 0]_vars

\* the process aborted on a failing callback outside run()/poll()
C8_Witness ==
    /\ aborted
    /\ ~running /\ panic = 0
    /\ backend \in {"win32", "cocoa"}

\* C9: a poll() that returns normally, without an exit request, has taken
\* every native event that was queued when it was called - on each backend.
C9_PollDrains ==
    (last.op = "poll" /\ last.res = "Ok" /\ ~last.exitReq) => last.left = 0

\* C10: poll() returns after finitely many dispatches: it never dispatches
\* more messages than were pending when it was called or arrived since.
C10_PollBounded ==
    \A i \in DOMAIN stack : stack[i].kind = "poll" => stack[i].slack >= 0

\* ---- timers and dropped Tasks ---------------------------------------------------
\* a handler frame was pushed by this step
Dispatched == Len(stack') = Len(stack) + 1 /\ stack'[Len(stack')].kind = "handler"

\* Task t is gone (handle dropped, no dispatch in progress) and a window or a
\* registered timer created under it still exists
Orphaned(t) ==
    /\ ~Alive(t)
    /\ \/ \E w \in Windows : winTask[w] = t
       \/ \E i \in TimerIds : tm[i].reg /\ tm[i].task = t

\* this step is the delivery of a window event or of a timer message for a
\* resource of Task t
DeliveryFor(t) ==
    \/ /\ Win32Timer
       /\ \E id \in tmsg \ tmsg' : tm[id].reg /\ tm[id].task = t
    \/ /\ Win32Step(FALSE)
       /\ IF NextMsg = "input" THEN winTask[Head(events)] = t ELSE FALSE

\* the stack after a delivery that entered no handler
DeliveredTo(s) ==
    IF NextMsg = "input" THEN MarkDequeue(s, TRUE) ELSE MarkDispatch(s)

\* C11: once the TaskHandle of a Task was dropped while windows or timers
\* created under it exist, no later delivery for them invokes a handler of the
\* Task, raises a failure or aborts, and the Task stays destroyed.
C11_DroppedTaskSilent ==
    [][\A t \in Tasks : Orphaned(t) =>
          /\ ~Alive(t)'
          /\ aborted' = aborted
          /\ DeliveryFor(t) =>
                (stack' = DeliveredTo(stack) /\ last'.res = "dropped")]_vars

\* a timer firing and a window event were dropped for a destroyed Task
C11_Witness ==
    /\ last.res = "dropped"
    /\ \E t \in Tasks :
          /\ Orphaned(t)
          /\ \E i \in TimerIds : tm[i].reg /\ tm[i].task = t /\ i \notin tmsg
          /\ \E w \in Windows : winTask[w] = t

\* C12: in the software timer queue every entry of a timer is due no earlier
\* than its creation time + duration, and a handler runs only in a pass whose
\* now is strictly later than the entry it fires for.
C12_NotBeforeDuration ==
    /\ \A e \in tqueue : e.time >= tm[e.id].born + tm[e.id].dur
    /\ \A i \in DOMAIN stack :
          (backend = "x11" /\ stack[i].msg = "timer") =>
              /\ stack[i].time >= tm[stack[i].win].born + tm[stack[i].win].dur
              /\ stack[i - 1].time > stack[i].time
              /\ now >= stack[i - 1].time

\* the handler of a software timer is running for its first entry
C12_Witness ==
    /\ backend = "x11" /\ stack # <<>>
    /\ Top.msg = "timer"
    /\ Top.time = tm[Top.win].born + tm[Top.win].dur
    /\ now > Top.time

\* the timer-related state of timer id
TimerView(id) ==
    <<tm[id], {e \in tqueue : e.id = id}, id \in tmsg>>

\* C13: cancel() is idempotent and final.  A cancel() of a timer that was
\* canceled before changes nothing about the timers; no handler is invoked for
\* a canceled timer; its outstanding queue entries only disappear.
C13_CancelFinal ==
    [][/\ \A id \in TimerIds :
            (TimerCancel(id) /\ tm[id].cancelled) =>
                UNCHANGED <<tm, tqueue, tmsg, next_id>>
       /\ (Dispatched /\ stack'[Len(stack')].msg = "timer") =>
            ~tm[stack'[Len(stack')].win].cancelled
       /\ \A id \in TimerIds : tm[id].cancelled =>
            /\ {e \in tqueue' : e.id = id} \subseteq {e \in tqueue : e.id = id}
            /\ tm'[id].cancelled /\ ~tm'[id].reg /\ ~tm'[id].native]_vars

\* the queue entry of a canceled timer was popped in a pass and discarded
C13_Witness ==
    /\ backend = "x11" /\ stack # <<>> /\ Top.pc = "tloop"
    /\ \E id \in TimerIds :
          /\ tm[id].cancelled
          /\ Top.time > tm[id].born + tm[id].dur
          /\ {e \in tqueue : e.id = id} = {}

\* C14: canceling or creating a timer from inside a handler completes without
\* failure on every backend.
C14_CancelInsideHandler ==
    [][(/\ \E i \in DOMAIN stack : stack[i].kind = "handler"
        /\ \/ \E id \in TimerIds : TimerCancel(id)
           \/ \E d \in Durations : TimerRepeat(KeyOf(next_id), d)) =>
          (last'.res = "Ok" /\ stack' = stack)]_vars

\* C15: canceling one of two timers of a Task leaves the other's registry
\* entry and schedule as they are; a timer's handler gets the Key given at its
\* creation; handlers of one Task never overlap.
C15_OtherTimerUntouched ==
    [][/\ \A id \in TimerIds : TimerCancel(id) =>
            \A j \in TimerIds \ {id} : TimerView(j)' = TimerView(j)
       /\ \A i \in DOMAIN stack' :
            stack'[i].msg = "timer" =>
                /\ stack'[i].key = KeyOf(stack'[i].win)
                /\ stack'[i].key = tm'[stack'[i].win].key
       /\ \A t \in Tasks : Cardinality(Holders(stack', t)) <= 1]_vars

\* one of two timers of a Task was canceled and the other one is firing
C15_Witness ==
    /\ backend = "win32" /\ stack # <<>>
    /\ Top.msg = "timer"
    /\ \E j \in TimerIds :
          /\ j # Top.win
          /\ tm[j].cancelled /\ tm[j].task = Top.task
          /\ tm[j].key # Top.key
    /\ tm[Top.win].reg /\ tm[Top.win].native

Outstanding(q, p, d) == q[d] + (IF p.pc # "idle" /\ p.d = d THEN 1 ELSE 0)

\* C17: refresh ticks are coalesced per display under every interleaving: at
\* most one unacknowledged refresh message of a display is outstanding, and a
\* tick that finds the previous one unacknowledged posts nothing.
C17_Coalesced ==
    [][\A d \in Displays :
          /\ Outstanding(vq', proc', d) <= 1
          /\ (VTick(d) /\ pending[d]) => (vq' = vq /\ vpc'[d] = "check")]_vars

\* a tick was dropped while the previous message was still in the queue
C17_Witness ==
    /\ lev.ev = "dropped"
    /\ lev.d \in Displays
    /\ vq[lev.d] = 1 /\ pending[lev.d]

\* C18: when the loop state is torn down, every refresh thread has been
\* halted and joined before any native registration is released.
C18_JoinedBeforeRelease ==
    (\E r \in Registrations : rel[r] > 0) =>
        (threads = {} /\ \A d \in Displays : vpc[d] = "exit")

\* this step invoked a Task handler
HandlerInvoked == lev'.n # lev.n /\ lev'.ev = "handler"

\* C19: each registration made at construction is released exactly once by
\* the teardown of the loop, never more than once, and no Task handler is
\* invoked once the teardown has begun.
C19_ReleasedOnce ==
    [][/\ \A r \in Registrations : rel'[r] <= 1
       /\ dpc' = "dead" => \A r \in Registrations : rel'[r] = 1
       /\ HandlerInvoked => (dpc = "live" /\ dpc' = "live")]_vars

\* the loop was torn down after a spawn and the creation of a window and a
\* timer
C19_Witness ==
    /\ dpc = "dead"
    /\ made = Handles
    /\ \A r \in Registrations : rel[r] = 1

C21_StateOutlivesCallbacks ==
    \A w \in Hwnds :
        LET ws == wins[w]
        IN  /\ ws.native => ws.refs # {}
            /\ (cur.pc = "handler" /\ cur.w = w) => ws.refs # {}
            /\ ws.ud <=> "userdata" \in ws.refs
            /\ ~ws.uaf
            /\ ws.udrel = (IF ws.made /\ ~ws.native THEN 1 ELSE 0)

\* a handler of window w dropped w's Window handle: the native window is
\* destroyed, and only wnd_proc's clone keeps the WindowState
C21_Witness ==
    \E w \in Hwnds :
        /\ cur.pc = "handler" /\ cur.w = w
        /\ ~wins[w].handle /\ ~wins[w].native
        /\ wins[w].refs = {"callback"}
        /\ wins[w].udrel = 1

\* C22: as_raw returns the native handle while the window is open and fails
\* with WindowClosed once the window has been torn down; it never returns the
\* handle of a window whose native object no longer exists, and close() is
\* idempotent.
C22_AsRawOnlyWhileOpen ==
    /\ wlast.op = "as_raw" =>
          (wlast.res = "Ok" <=> wins[wlast.w].native)
    /\ \A w \in Hwnds :
          WindowState_close(WindowState_close(wins[w]))
              = WindowState_close(wins[w])

C25_CaptureSuppressesDefault ==
    wlast.op \in {"Mouse", "Wheel"} =>
        (wlast.def <=> ~(wlast.ran /\ wlast.resp = "Capture"))

\* a handler returned Capture for a mouse button event
C25_Witness ==
    /\ wlast.op = "Mouse" /\ wlast.ran /\ wlast.resp = "Capture"
    /\ ~wlast.def

\* C29: handling a refresh tick for display D attempts exactly one Frame
\* dispatch for each registered window whose display, resolved when the
\* iteration reaches it, is D, and none for any other window; every
\* registered window is visited, and the display a window was created on
\* plays no part.
C29_FrameForCurrentDisplay ==
    /\ wlast.op = "tick_begin" =>
          tick.todo = {w \in Hwnds : "registry" \in wins[w].refs}
    /\ wlast.op = "tick_step" =>
          /\ (wlast.res = "attempt") <=>
                 /\ "registry" \in wins[wlast.w].refs
                 /\ wins[wlast.w].mon = tick.d
          /\ tick.att[wlast.w] = (IF wlast.res = "attempt" THEN 1 ELSE 0)
    /\ \A w \in Hwnds : tick.att[w] <= 1

\* a Frame was attempted for a window that was created on another display
\* and moved to the display of the tick
C29_Witness ==
    /\ wlast.op = "tick_step" /\ wlast.res = "attempt"
    /\ wins[wlast.w].mon0 # tick.d

\* C30: the window registry may be mutated by a handler while a refresh tick
\* iterates it.  When a Frame handler drops a Window or opens one, the tick
\* goes on over its snapshot; a window closed earlier in the tick gets no
\* Frame when the iteration reaches it, and no window gets more than one
\* Frame per tick.
C30_MutationDuringTick ==
    [][/\ (tick.d # 0 /\ ~WTickEnd) => tick'.d = tick.d
       /\ \A w \in Hwnds :
             /\ tick'.att[w] <= 1
             /\ (w \in tick.closed /\ tick.d # 0 /\ tick'.d # 0) =>
                    tick'.att[w] = tick.att[w]
             /\ (tick.d # 0 /\ ~wins[w].made /\ tick'.d # 0) =>
                    /\ w \notin tick'.todo
                    /\ tick'.att[w] = 0]_vars

\* the iteration reached a window that a Frame handler of this tick had
\* closed, and passed it by; another window got its Frame
C30_Witness ==
    /\ tick.d # 0
    /\ \E w, v \in Hwnds :
          /\ w \in tick.closed /\ w \notin tick.todo /\ tick.att[w] = 0
          /\ wins[w].mon = tick.d
          /\ tick.att[v] = 1

\* C24: for each window exactly one Expose event is dispatched per batch of
\* native Expose notifications, when the notification with count 0 is polled
\* and not before; its rectangle list is the rectangles sent for that window
\* in that batch, in arrival order and in logical coordinates; the
\* accumulator is empty afterwards, so no rectangle reaches a later batch.
C24_OneExposePerBatch ==
    /\ xlast.op = "Expose" =>
          /\ xlast.count = 0
          /\ xlast.exact
          /\ xacc[xlast.w] = <<>>
    /\ (xlast.op = "push" \/ xlast.op = "skip") => xlast.len = 0
    /\ xlast.op = "push" => xlast.count # 0
    /\ \A w \in Hwnds :
          Len(xacc[w]) < MaxBatch

\* an Expose with two rectangles was dispatched to the handler
\* while a second window is open, and nothing is left to poll
C24_Witness ==
    /\ xlast.op = "Expose" /\ xlast.ran
    /\ xlast.len = 2
    /\ xstream = <<>>
    /\ \E w \in Hwnds : w # xlast.w /\ xopen[w]

\* C26: present copies the caller's bitmap row by row into the surface,
\* clipped to min(bitmap width, surface width) columns and min(bitmap
\* height, surface height) rows.  For every pair of sizes, after a present
\* whose lock succeeded each pixel inside the clipped region equals the
\* bitmap pixel at the same row and column, every pixel outside it is as it
\* was, no slice was out of bounds, and the surface is the one allocated at
\* open, with its size.
C26_ClippedCopy ==
    plast.op = "present" =>
        /\ plast.ok
        /\ psurf.some => psurf.allocs = 1
        /\ Len(psurf.buf) = psurf.width * psurf.height
        /\ Len(psurf.buf) = Len(plast.before)
        /\ ~plast.locked => psurf.buf = plast.before
        /\ plast.locked =>
              \A row \in 0..(psurf.height - 1), col \in 0..(psurf.width - 1) :
                  LET i == row * psurf.width + col + 1
                  IN  psurf.buf[i] =
                         IF /\ row < Min(plast.height, psurf.height)
                            /\ col < Min(plast.width, psurf.width)
                         THEN BitmapData(plast.width, plast.height)
                                  [row * plast.width + col + 1]
                         ELSE plast.before[i]

\* a bitmap wider and lower than the surface was presented on a fresh
\* surface: the row was cut short and the second row was left as it was
C26_Witness ==
    /\ plast.op = "present" /\ plast.locked
    /\ plast.width > psurf.width /\ plast.height < psurf.height
    /\ plast.height > 0 /\ psurf.width > 0
    /\ plast.before # psurf.buf

\* C27: one pass of the software timer queue fires every live timer whose due
\* time is strictly before the pass's now, in non-decreasing order of due
\* time and only while it is registered; each fired timer is rescheduled at
\* max(now, last due + duration), which keeps it out of the rest of the pass,
\* so no timer fires twice and the pass ends - also for a duration of zero
\* and for timers created by a handler during the pass, whose creation
\* succeeds and leaves the pass running.
C27_OnePass ==
    [][/\ (/\ Len(stack') = Len(stack) + 1
           /\ stack'[Len(stack')].msg = "timer") =>
              LET h == stack'[Len(stack')]
              IN  /\ h.time < Top.time
                  /\ tm[h.win].reg
                  /\ \A o \in tqueue : h.time <= o.time
                  /\ \A o \in tqueue' : o.id # h.win
       /\ (Return /\ Top.msg = "timer") =>
              LET pass == stack[Len(stack) - 1].time
                  due == Top.time + tm[Top.win].dur
              IN  /\ tqueue' = tqueue \union
                         {[time |-> IF due > pass THEN due ELSE pass,
                           id |-> Top.win]}
                  /\ \A o \in tqueue' : o.id = Top.win => o.time >= pass
       /\ (/\ \E i \in DOMAIN stack : stack[i].msg = "timer"
           /\ \E d \in PollDurations : TimerRepeat(KeyOf(next_id), d)) =>
              /\ last'.res = "Ok"
              /\ stack' = stack
              /\ tm'[next_id].reg]_vars

\* the loop takes the next native event, which is for window w
Dequeued(w) == events # <<>> /\ Head(events) = w /\ events' = Tail(events)

\* C28: an event dropped because the Task was borrowed is lost for that one
\* occurrence only.  When with/try_with or a dispatch ends, normally or by a
\* failure, the Task is unborrowed again: no Task stays borrowed without a
\* closure or handler of it on the stack.  The next event for the same
\* window that finds the Task alive and unborrowed enters the handler; an
\* event is dropped only while the Task is borrowed or gone.
C28_DropIsTransient ==
    [][/\ \A t \in Tasks : Holders(stack', t) = {} => ~borrowed'[t]
       /\ \A w \in Windows :
             (Dequeued(w) /\ winTask[w] # 0) =>
                 LET t == winTask[w]
                 IN  IF Alive(t) /\ Holders(stack, t) = {}
                     THEN /\ Len(stack') = Len(stack) + 1
                          /\ stack'[Len(stack')].kind = "handler"
                          /\ stack'[Len(stack')].win = w
                          /\ stack'[Len(stack')].task = t
                          /\ borrowed'[t]
                     ELSE /\ last'.res = "dropped"
                          /\ Len(stack') = Len(stack)]_vars

\* an event for a window was dropped inside a poll() made by a closure of
\* with(), which borrows the window's Task, and another event for the same
\* window is queued
C28_Witness ==
    /\ last.res = "dropped"
    /\ events # <<>>
    /\ LET t == winTask[Head(events)]
       IN  /\ t # 0
           /\ borrowed[t]
           /\ \E i \in DOMAIN stack : stack[i].kind = "with" /\ stack[i].task = t

\* C31: for every sequence of button-down and button-up messages on a
\* window, the native capture is held exactly when the window's press count
\* is at least 1; it is acquired only on the transition to 1 and released
\* only on the transition to 0, whether or not the handler ran.
C31_CaptureFollowsCount ==
    [][\A w \in Hwnds :
          /\ wins'[w].native => (cap'[w] <=> mdc'[w] >= 1)
          /\ (cap'[w] /\ ~cap[w]) => (mdc[w] = 0 /\ mdc'[w] = 1)
          /\ (cap[w] /\ ~cap'[w]) => (mdc[w] = 1 /\ mdc'[w] = 0)]_vars

\* a second button went down in a window that holds the capture, and the
\* handler of that message did not run
C31_Witness ==
    /\ blast.down /\ ~blast.ran
    /\ blast.w # 0
    /\ mdc[blast.w] = 2
    /\ cap[blast.w]

\* C36: a window's press count is never negative and always equals the
\* number of button-down messages minus button-up messages received since
\* the window opened, also after a button-up without a button-down before.
C36_PressCount ==
    \A w \in Hwnds :
        /\ mdc[w] >= 0
        /\ mdc[w] = downs[w] - ups[w]


\* A fraction is the native coordinate divided by the scale dpi / 96.
Logical(f, p, dpi) == f.num * dpi = p * 96 * f.den

\* C32: every MouseMove a handler receives, the one synthesized on pointer
\* entry included, carries the native position divided by the window's
\* scale factor, on every backend.
C32_LogicalPointer ==
    moved.kind # "none" =>
        /\ Logical(moved.x, moved.px, moved.dpi)
        /\ Logical(moved.y, moved.py, moved.dpi)

\* C33: a captured failure is stored once: when a second handler fails after
\* a first failure was captured and before the loop has stopped, the panic
\* cell still holds the first failure, and the first failure is the one that
\* run()/poll() re-raises.
C33_StoredOnce ==
    /\ (running /\ nfail > 0) => panic = 1
    /\ (flast.op = "run" /\ flast.nfail > 0) => flast.raised = 1

\* C35: the pending flag of a display is cleared after every handled refresh
\* message, also when a Frame handler failed during the tick: while the
\* process lives, a set flag means a refresh message is still in the queue.
C35_PendingCleared ==
    ~aborted => \A m \in Monitors : vpend[m] => m \in vposted

\* C34: on x11, once a handler has called exit() during run() or poll(), no
\* handler is invoked before that call returns: no due timer fires after
\* the exit request, within the same pass or later.
C34_QuietAfterExit ==
    [][(\E i \in DOMAIN stack : IsPump(stack[i]) /\ stack[i].exitReq) =>
          ~(/\ Len(stack') > Len(stack)
            /\ stack'[Len(stack')].kind = "handler")]_vars

\* C37: a Task is not destroyed while one of its handler invocations or
\* with/try_with closures executes, even if its TaskHandle is dropped during
\* the execution: whenever code of a Task is on the stack the Task is
\* borrowed, and whenever it is borrowed its strong count is positive.
C37_TaskOutlivesDispatch ==
    /\ \A i \in DOMAIN stack :
          (IsCode(stack[i]) /\ stack[i].task # 0) => borrowed[stack[i].task]
    /\ \A t \in Tasks : borrowed[t] => Alive(t)

\* a handler of a Task is executing after the Task's handle was dropped
C37_Witness ==
    \E i \in DOMAIN stack :
        /\ stack[i].kind = "handler" /\ stack[i].task # 0
        /\ ~handle[stack[i].task]
        /\ borrowed[stack[i].task]

\* C38: the panic cell is empty whenever no run()/poll() of the loop is in
\* progress: it is occupied only while the loop is Running, and every return
\* path of run()/poll() leaves it empty.
C38_CellEmptyOutsideRun ==
    /\ panic # 0 => (running /\ PumpCount(stack) > 0)
    /\ IsRet(last) => (PumpCount(stack) = 0 => panic = 0)

\* a run() or poll() has re-raised a captured failure and left the cell empty
C38_Witness ==
    /\ backend # "x11"
    /\ IsRet(last) /\ last.raised # 0
    /\ ~running /\ panic = 0

\* C39: while a timer is pending, the timeout passed to the blocking wait
\* is a non-negative 32-bit count of milliseconds that does not exceed the
\* time remaining until the earliest queue entry, whatever the duration;
\* it is negative (infinite) only when the queue is empty.
C39_TimeoutWithinDue ==
    twait.op = "wait" =>
        IF twait.queued
        THEN ~twait.neg /\ MillisLeq(twait.timeout, twait.rem)
        ELSE twait.neg

\* C40: a window opened at (px, py) is created with native x derived from
\* px and native y derived from py, each scaled to physical units and
\* adjusted for the frame.
C40_PositionNotExchanged ==
    created.op = "open" =>
        LET want == AdjustWindowRectEx(
                        [left |-> Physical(created.px, created.dpi),
                         top |-> Physical(created.py, created.dpi)],
                        created.child)
        IN created.x = want.left /\ created.y = want.top
====
